---- MODULE Spec2Model ----
(***************************************************************************)
(* diffenator3: comparison of two font binaries.                           *)
(*                                                                         *)
(*   Spec        one run of the diffenator3 binary, from the parsed        *)
(*               command line to the report                                *)
(*   SpecRender  one Renderer and the render_string calls made on it       *)
(*   SpecDiff    the structural diff of two Value trees (ttj::jsondiff)    *)
(***************************************************************************)
EXTENDS Integers, Sequences, FiniteSets, TLC

VARIABLES
    pc,         \* Spec: where main is
    cli,        \* Spec: the parsed command line
    font_a,     \* Spec: the first DFont
    font_b,     \* Spec: the second DFont
    diffmap,    \* Spec: main's diff map
    stdout,     \* Spec: the lines printed so far
    html_file,  \* Spec: the value rendered into diffenator.html, once written
    called,     \* Spec: the diff functions main has called, in order
    hack,       \* Spec: the two results of set_location that main drops
    rpc,        \* SpecRender: "ready" while the Renderer is in use
    renderer,   \* SpecRender: the Renderer
    rcalls,     \* SpecRender: the number of render_string calls made
    rlast,      \* SpecRender: the last call: its string and what it returned
    extractions,\* SpecRender: how often font.outline ran, per glyph id
    dpc,        \* SpecDiff: position of the diff harness
    dl,         \* SpecDiff: left Value tree
    dr,         \* SpecDiff: right Value tree
    dres,       \* SpecDiff: diff(dl, dr)
    dswap,      \* SpecDiff: diff(dr, dl)
    dself,      \* SpecDiff: diff(dl, dl)
    dmap,       \* SpecDiff: main's diff map after the tables step on a font
                \* whose head table serialises to dl, against itself
    spc,        \* SpecScripts: which of the lookups have been made
    script_name,\* SpecScripts: the script name looked up
    wordlist,   \* SpecScripts: what get_wordlist returned
    script_tag, \* SpecScripts: what get_script_tag returned
    direction,  \* SpecScripts: what get_script_direction returned
    overflow_checks \* the build: TRUE when integer overflow panics (the
                \* default of a debug build), FALSE when it wraps (the
                \* default of a release build)

mainVars == <<pc, cli, font_a, font_b, diffmap, stdout, html_file, called, hack>>
renderVars == <<rpc, renderer, rcalls, rlast, extractions>>
diffVars == <<dpc, dl, dr, dres, dswap, dself, dmap>>
scriptVars == <<spc, script_name, wordlist, script_tag, direction>>
buildVars == <<overflow_checks>>
vars == <<pc, cli, font_a, font_b, diffmap, stdout, html_file, called, hack,
          rpc, renderer, rcalls, rlast, extractions,
          dpc, dl, dr, dres, dswap, dself, dmap,
          spc, script_name, wordlist, script_tag, direction,
          overflow_checks>>

(***************************************************************************)
(* serde_json::Value: Null | Bool | Number | String | Array | Object.      *)
(* An Object is an ordered mapping: a sequence of <<key, value>> entries   *)
(* with unique keys, in insertion order.                                   *)
(***************************************************************************)
Null == [t |-> "null"]
Bool(b) == [t |-> "bool", v |-> b]
Num(n) == [t |-> "num", v |-> n]
Str(s) == [t |-> "str", v |-> s]
Arr(s) == [t |-> "arr", v |-> s]
Obj(s) == [t |-> "obj", v |-> s]

IsNull(x) == x.t = "null"
IsString(x) == x.t = "str"
IsArray(x) == x.t = "arr"
IsObject(x) == x.t = "obj"

\* Map::keys(): the keys in iteration order, and as a set
KeySeq(o) == [i \in 1..Len(o.v) |-> o.v[i][1]]
KeySet(o) == {o.v[i][1] : i \in 1..Len(o.v)}
\* Map::contains_key
ContainsKey(o, k) == k \in KeySet(o)
\* Map::get(key): Some(value), written <<value>>, or None, written <<>>
MapGet(o, k) ==
    IF ContainsKey(o, k)
    THEN <<o.v[CHOOSE i \in 1..Len(o.v) : o.v[i][1] = k][2]>>
    ELSE <<>>
\* map[key] on a key that is present
MapIndex(o, k) == MapGet(o, k)[1]
\* Map::insert(key, value): replaces the value of a key already present,
\* appends a new key
MapInsert(o, k, x) ==
    IF ContainsKey(o, k)
    THEN Obj([i \in 1..Len(o.v) |->
                 IF o.v[i][1] = k THEN <<k, x>> ELSE o.v[i]])
    ELSE Obj(Append(o.v, <<k, x>>))

\* Value's PartialEq: deep structural equality; two Objects are equal when
\* they hold the same keys with equal values
RECURSIVE ValueEq(_, _)
ValueEq(x, y) ==
    IF x.t # y.t THEN FALSE
    ELSE IF x.t = "null" THEN TRUE
    ELSE IF x.t = "arr"
    THEN /\ Len(x.v) = Len(y.v)
         /\ \A i \in 1..Len(x.v) : ValueEq(x.v[i], y.v[i])
    ELSE IF x.t = "obj"
    THEN /\ KeySet(x) = KeySet(y)
         /\ \A k \in KeySet(x) : ValueEq(MapIndex(x, k), MapIndex(y, k))
    ELSE x.v = y.v

(***************************************************************************)
(* ttj::jsondiff (spec.md 3 "Presence", 4.2 "Structural Diff Engine")      *)
(***************************************************************************)
\* Substantial::is_something: not Null, not an empty Object, not an empty
\* Array, not an empty String
is_something(x) ==
    CASE x.t = "null" -> FALSE
      [] x.t = "obj" -> Len(x.v) > 0
      [] x.t = "arr" -> Len(x.v) > 0
      [] x.t = "str" -> x.v # ""
      [] OTHER -> TRUE

\* only the keys of the left side
UnionKeysLeftOnly(left, right) == KeySeq(left)
\* the union of the keys of both sides: left's keys first, in their order,
\* then right's keys not already seen, in their order
UnionKeys(left, right) ==
    KeySeq(left) \o SelectSeq(KeySeq(right), LAMBDA k : ~ContainsKey(left, k))

\* the child of a side under a key: absent => treat as Null
ChildOrNull(o, k) == IF ContainsKey(o, k) THEN MapIndex(o, k) ELSE Null

RECURSIVE diff(_, _)
RECURSIVE DiffKeys(_, _, _, _)
\* both sides are Objects: recurse on every key of the union, in order, and
\* keep the keys whose result is not empty
DiffKeys(left, right, keys, acc) ==
    IF keys = <<>> THEN acc
    ELSE LET k == Head(keys)
             child == diff(ChildOrNull(left, k), ChildOrNull(right, k))
         IN  DiffKeys(left, right, Tail(keys),
                      IF is_something(child) THEN MapInsert(acc, k, child)
                      ELSE acc)

\* diff(left, right) -> DiffNode. No difference is Null (a leaf) or the
\* empty Object (two Objects)
diff(left, right) ==
    IF IsObject(left) /\ IsObject(right)
    THEN DiffKeys(left, right, UnionKeys(left, right), Obj(<<>>))
    ELSE IF ValueEq(left, right) THEN Null
    ELSE Arr(<<left, right>>)

(***************************************************************************)
(* read_fonts::FontRef as ttj sees it: the table directory, in order, and  *)
(* what decoding each table gives. A record is [tag, data]: data is        *)
(* DecodeErr, or Ok(payload): the serialised table (a Value) for a tag     *)
(* font_to_json knows, the table's bytes for any other tag. names is the   *)
(* name table: DecodeErr, or Ok of its records [id, lang, s] (lang ""      *)
(* when the record has no language).                                       *)
(***************************************************************************)
DecodeErr == [ok |-> FALSE]
Ok(x) == [ok |-> TRUE, val |-> x]

\* the tags font_to_json matches on (ttj/mod.rs:36-59)
KnownTags ==
    {"head", "hhea", "vhea", "hmtx", "vmtx", "fvar", "avar", "HVAR", "VVAR",
     "MVAR", "maxp", "OS/2", "post", "loca", "glyf", "gvar", "cmap", "GDEF",
     "GPOS", "GSUB", "COLR", "CPAL", "STAT"}

\* StringId::to_string of the name ids of the model
NameIdString(id) == CASE id = 1 -> "1" [] id = 2 -> "2" [] OTHER -> "0"

\* ids.sort_by_key(|id| id.to_u16()): insertion sort of a sequence of ids
RECURSIVE SortIds(_)
InsertId(sorted, id) ==
    LET less == SelectSeq(sorted, LAMBDA x : x <= id)
        more == SelectSeq(sorted, LAMBDA x : x > id)
    IN  less \o <<id>> \o more
SortIds(ids) ==
    IF ids = <<>> THEN <<>>
    ELSE InsertId(SortIds(Tail(ids)), Head(ids))

\* font.localized_strings(id) collected into the map language -> string
RECURSIVE LocalizedStrings(_, _, _)
LocalizedStrings(records, id, acc) ==
    IF records = <<>> THEN acc
    ELSE LET r == Head(records)
         IN  LocalizedStrings(Tail(records), id,
                 IF r.id = id
                 THEN MapInsert(acc, IF r.lang = "" THEN "default" ELSE r.lang,
                                Str(r.s))
                 ELSE acc)

RECURSIVE SerializeNameIds(_, _, _)
SerializeNameIds(records, ids, map) ==
    IF ids = <<>> THEN map
    ELSE LET localized == LocalizedStrings(records, Head(ids), Obj(<<>>))
         IN  SerializeNameIds(records, Tail(ids),
                 IF Len(localized.v) > 0
                 THEN MapInsert(map, NameIdString(Head(ids)), localized)
                 ELSE map)

serialize_name_table(font) ==
    IF font.names.ok
    THEN SerializeNameIds(font.names.val,
                          SortIds([i \in 1..Len(font.names.val) |->
                                      font.names.val[i].id]),
                          Obj(<<>>))
    ELSE Obj(<<>>)

\* one table record of the directory: the decoded table, or the failure
\* marker
TableValue(record) ==
    IF ~record.data.ok THEN Str("Could not parse")
    ELSE IF record.tag \in KnownTags THEN record.data.val
    ELSE Arr([i \in 1..Len(record.data.val.bytes) |->
                 Num(record.data.val.bytes[i])])

\* a plausible slip: a table that fails to parse is left out
TableEntrySkipFailed(map, record) ==
    IF record.data.ok THEN MapInsert(map, record.tag, TableValue(record))
    ELSE map

\* the body of font_to_json's loop: map.insert(key, value.unwrap_or_else(..))
TableEntry(map, record) == MapInsert(map, record.tag, TableValue(record))

RECURSIVE FontToJsonLoop(_, _)
FontToJsonLoop(records, map) ==
    IF records = <<>> THEN map
    ELSE FontToJsonLoop(Tail(records), TableEntry(map, Head(records)))

font_to_json(font) ==
    MapInsert(FontToJsonLoop(font.dir, Obj(<<>>)), "name",
              serialize_name_table(font))

\* a plausible slip: the name table is serialized for the second font only
table_diff_unnamed(fa, fb) ==
    diff(FontToJsonLoop(fa.dir, Obj(<<>>)), font_to_json(fb))

table_diff(fa, fb) == diff(font_to_json(fa), font_to_json(fb))

(***************************************************************************)
(* f32: IEEE 754 binary32. A value is a record [k, neg, m, e]: k = "fin"   *)
(* is the finite number (-1)^neg * m * 2^e, with m odd, or m = 0 and       *)
(* e = 0; k = "inf" is an infinity and k = "nan" a NaN. Every operation    *)
(* rounds to nearest, ties to even, as the hardware does.                  *)
(***************************************************************************)
Pow2(n) == IF n <= 0 THEN 1 ELSE 2 ^ n
Pow10(n) == IF n <= 0 THEN 1 ELSE 10 ^ n
\* the number of binary digits of n
RECURSIVE BitLen(_)
BitLen(n) == IF n <= 0 THEN 0 ELSE 1 + BitLen(n \div 2)

F32Zero(neg) == [k |-> "fin", neg |-> neg, m |-> 0, e |-> 0]
F32Inf(neg) == [k |-> "inf", neg |-> neg, m |-> 0, e |-> 0]
F32NaN == [k |-> "nan", neg |-> FALSE, m |-> 0, e |-> 0]

\* the record of the finite number m * 2^e, m odd or zero
RECURSIVE F32Finite(_, _, _)
F32Finite(neg, m, e) ==
    IF m = 0 THEN F32Zero(neg)
    ELSE IF m % 2 = 0 THEN F32Finite(neg, m \div 2, e + 1)
    ELSE [k |-> "fin", neg |-> neg, m |-> m, e |-> e]

\* the f32 nearest to a magnitude between q * 2^e and (q + 1) * 2^e:
\* exactly q * 2^e without sticky, strictly between the two with it. The
\* result has 24 binary digits, fewer below 2^-126, and is an infinity
\* from 2^128 on.
F32Round(neg, q, sticky, e) ==
    LET Kept(keep, rem, half, qe) ==
            LET m == IF rem > half \/ (rem = half /\ (sticky \/ keep % 2 = 1))
                     THEN keep + 1 ELSE keep
            IN  IF m > 0 /\ BitLen(m) + qe > 128 THEN F32Inf(neg)
                ELSE F32Finite(neg, m, qe)
        Dropped(nb, qe, drop) ==
            IF drop <= 0
            THEN IF nb + e > 128 THEN F32Inf(neg) ELSE F32Finite(neg, q, e)
            ELSE IF drop > nb + 1 THEN F32Zero(neg)
            ELSE Kept(q \div Pow2(drop), q % Pow2(drop), Pow2(drop - 1), qe)
        Quantum(nb, qe) == Dropped(nb, qe, qe - e)
        Sized(nb) ==
            Quantum(nb, IF nb + e - 24 > 0 - 149 THEN nb + e - 24 ELSE 0 - 149)
    IN  IF q = 0 THEN F32Zero(neg) ELSE Sized(BitLen(q))

\* i32::MIN, -2^31
MinI32 == 0 - 2147483647 - 1

\* `-x` of an i32 where overflow wraps: i32::MIN is its own negative
WrappingNeg(x) == IF x = MinI32 THEN MinI32 ELSE 0 - x

\* `i as f32` of an i32
F32FromInt(i) ==
    IF i = MinI32 THEN F32Finite(TRUE, 1, 31)
    ELSE F32Round(i < 0, IF i < 0 THEN 0 - i ELSE i, FALSE, 0)

\* binary long division: digits of the quotient n / d are produced until
\* it is exact, has 27 of them, or reaches 2^-152
RECURSIVE F32DivDigits(_, _, _, _)
F32DivDigits(q, r, d, e) ==
    IF r = 0 \/ q >= Pow2(26) \/ e <= 0 - 152 THEN [q |-> q, r |-> r, e |-> e]
    ELSE IF 2 * r >= d THEN F32DivDigits(2 * q + 1, 2 * r - d, d, e - 1)
    ELSE F32DivDigits(2 * q, 2 * r, d, e - 1)

\* the f32 nearest to (n / d) * 2^e, for n >= 0 and d > 0
F32Ratio(neg, n, d, e) ==
    LET Rounded(digits) == F32Round(neg, digits.q, digits.r # 0, digits.e)
    IN  Rounded(F32DivDigits(n \div d, n % d, d, e))

\* a / b
F32Div(a, b) ==
    LET neg == a.neg # b.neg
    IN  IF a.k = "nan" \/ b.k = "nan" THEN F32NaN
        ELSE IF a.k = "inf" THEN (IF b.k = "inf" THEN F32NaN ELSE F32Inf(neg))
        ELSE IF b.k = "inf" THEN F32Zero(neg)
        ELSE IF b.m = 0 THEN (IF a.m = 0 THEN F32NaN ELSE F32Inf(neg))
        ELSE F32Ratio(neg, a.m, b.m, a.e - b.e)

\* a * b: the product of the two 24-digit numbers is formed in two halves
\* of 24 digits, H * 2^24 + L, and rounded once
F32Mul(a, b) ==
    LET neg == a.neg # b.neg
    IN  IF a.k = "nan" \/ b.k = "nan" THEN F32NaN
        ELSE IF a.k = "inf" \/ b.k = "inf"
        THEN (IF (a.k = "fin" /\ a.m = 0) \/ (b.k = "fin" /\ b.m = 0)
              THEN F32NaN ELSE F32Inf(neg))
        ELSE LET Halves(H, L, k) ==
                     F32Round(neg, H * Pow2(k) + L \div Pow2(24 - k),
                              L % Pow2(24 - k) # 0, a.e + b.e + 24 - k)
                 Sum(H, L) ==
                     Halves(H, L, IF 27 - BitLen(H) > 24 THEN 24
                                  ELSE 27 - BitLen(H))
                 Parts(high, mid, low) ==
                     Sum(high + mid \div 4096 + low \div Pow2(24),
                         low % Pow2(24))
                 Cross(high, mid, least) ==
                     Parts(high, mid, (mid % 4096) * 4096 + least)
             IN  Cross((a.m \div 4096) * (b.m \div 4096),
                       (a.m \div 4096) * (b.m % 4096)
                       + (a.m % 4096) * (b.m \div 4096),
                       (a.m % 4096) * (b.m % 4096))

\* a + b: the operand of the larger magnitude is given 27 digits, the
\* other is aligned to it, and what falls below is kept as sticky
F32Add(a, b) ==
    IF a.k = "nan" \/ b.k = "nan" THEN F32NaN
    ELSE IF a.k = "inf"
    THEN (IF b.k = "inf" /\ a.neg # b.neg THEN F32NaN ELSE a)
    ELSE IF b.k = "inf" THEN b
    ELSE IF a.m = 0 /\ b.m = 0 THEN F32Zero(a.neg /\ b.neg)
    ELSE IF a.m = 0 THEN b
    ELSE IF b.m = 0 THEN a
    ELSE LET Aligned(big, small, A, B, sticky, eA) ==
                 IF big.neg # small.neg /\ ~sticky /\ A = B THEN F32Zero(FALSE)
                 ELSE F32Round(IF big.neg = small.neg \/ sticky \/ A > B
                               THEN big.neg ELSE small.neg,
                               IF big.neg = small.neg THEN A + B
                               ELSE IF sticky THEN A - B - 1
                               ELSE IF A > B THEN A - B ELSE B - A,
                               sticky, eA)
             Shifted(big, small, nb, shift) ==
                 Aligned(big, small, big.m * Pow2(27 - nb),
                         IF shift >= 0 THEN small.m * Pow2(shift)
                         ELSE IF 0 - shift > 24 THEN 0
                         ELSE small.m \div Pow2(0 - shift),
                         shift < 0 /\ (0 - shift > 24
                                       \/ small.m % Pow2(0 - shift) # 0),
                         big.e - (27 - nb))
             Sized(big, small, nb) ==
                 Shifted(big, small, nb, small.e - (big.e - (27 - nb)))
             Ordered(big, small) == Sized(big, small, BitLen(big.m))
             Compared(first) ==
                 Ordered(IF first THEN a ELSE b, IF first THEN b ELSE a)
         IN  Compared(BitLen(a.m) + a.e >= BitLen(b.m) + b.e)

\* floor of a finite f32, as an integer
F32Floor(x) ==
    IF x.e >= 0 THEN (IF x.neg THEN 0 - x.m * Pow2(x.e) ELSE x.m * Pow2(x.e))
    ELSE IF 0 - x.e > 24 THEN (IF x.neg /\ x.m > 0 THEN 0 - 1 ELSE 0)
    ELSE IF x.neg THEN 0 - ((x.m + Pow2(0 - x.e) - 1) \div Pow2(0 - x.e))
    ELSE x.m \div Pow2(0 - x.e)

\* f32::trunc: the whole part, toward zero
F32Trunc(x) ==
    IF x.k # "fin" \/ x.e >= 0 THEN x
    ELSE IF 0 - x.e > 24 THEN F32Zero(x.neg)
    ELSE F32Finite(x.neg, x.m \div Pow2(0 - x.e), 0)

\* f32::fract: x - x.trunc()
F32Fract(x) == F32Add(x, [F32Trunc(x) EXCEPT !.neg = ~@])

\* f32::floor: the whole number below, as an f32
F32FloorF(x) ==
    IF x.k # "fin" \/ x.e >= 0 THEN x ELSE F32FromInt(F32Floor(x))

\* a u32 is written in two halves of 16 bits, hi * 2^16 + lo
U32(hi, lo) == [hi |-> hi, lo |-> lo]
\* the u32 of a number in 0 .. 2^31 - 1
U32FromInt(n) == U32(n \div 65536, n % 65536)
\* the number of a u32 below 2^31
U32Value(u) == u.hi * 65536 + u.lo
U32Less(a, b) == a.hi < b.hi \/ (a.hi = b.hi /\ a.lo < b.lo)

\* a + b of two u32: the sum modulo 2^32, and whether it overflowed
U32Add(a, b) ==
    LET Carried(lo, hi) ==
            [value |-> U32(hi % 65536, lo % 65536), overflow |-> hi >= 65536]
        Low(lo) == Carried(lo, a.hi + b.hi + lo \div 65536)
    IN  Low(a.lo + b.lo)

\* `x as u32` of a float: toward zero, saturating at u32::MAX, NaN to 0
AsU32(x) ==
    IF x.k = "nan" \/ x.neg THEN U32(0, 0)
    ELSE IF x.k = "inf" \/ BitLen(x.m) + x.e > 32 THEN U32(65535, 65535)
    ELSE IF x.e >= 16 THEN U32(x.m * Pow2(x.e - 16), 0)
    ELSE IF x.e >= 0
    THEN U32(x.m \div Pow2(16 - x.e), (x.m % Pow2(16 - x.e)) * Pow2(x.e))
    ELSE U32FromInt(F32Floor(x))

(***************************************************************************)
(* render::renderer. A font binary, as the renderer sees it:               *)
(*   gid          the glyph id the shaper gives a character (0: no glyph)  *)
(*   adv, xoff, yoff   a glyph's advance and offsets in the shaper's       *)
(*                output, in font units                                    *)
(*   lsb          ScaleFont::h_side_bearing of a glyph, in pixels          *)
(*   outline      Font::outline of a glyph: None, or Some(outline)         *)
(*   ascender     Face::ascender, in font units                            *)
(*   upem         Font::height_unscaled                                    *)
(* An outline is [minx, miny, rows]: the corner of its pixel bounds        *)
(* relative to the glyph's position, and the coverage of every pixel of    *)
(* the bounds in tenths (rows[y + 1][x + 1] for the sample (x, y)).        *)
(* Positions and the factor are f32. height_unscaled is positive and the   *)
(* font size is finite. Offsets are i32, and a pixel coordinate is a u32   *)
(* kept as two 16-bit halves [hi, lo]. Where the arithmetic of lines 84,   *)
(* 117 and 120 overflows the outcome is the build's: a panic when          *)
(* overflow_checks holds, the wrapped value when it does not.              *)
(***************************************************************************)
None == <<>>
Some(x) == <<x>>
IsSome(o) == o # <<>>

\* the point size test_font_glyphs and test_font_words render at
FontSize == 2

\* `x as u16` of a u32
AsU16(x) == x % 65536
\* u8::saturating_add
SaturatingAdd(a, b) == IF a + b > 255 THEN 255 ELSE a + b

\* Renderer::new: the fields render_string reads, and an empty cache
NewRenderer(dfont, font_size) ==
    [font |-> dfont.backing,
     codepoints |-> dfont.codepoints,
     scale |-> font_size,
     factor |-> F32Div(font_size, F32FromInt(dfont.backing.upem)),
     outline_cache |-> <<>>]

\* the outline cache is a map from glyph id to Option<Outline>, written as
\* a sequence of <<id, entry>> in insertion order
CacheHas(cache, id) == \E i \in 1..Len(cache) : cache[i][1] = id
CacheAt(cache, id) == cache[CHOOSE i \in 1..Len(cache) : cache[i][1] = id][2]

\* a plausible slip: font.outline is asked every time, the cache never
\* filled
get_outline_uncached(font, cache, id) ==
    [outline |-> font.outline[id], cache |-> cache, extracted |-> TRUE]

\* a plausible slip: the outline is moved out of the cache (take() for
\* clone()), which leaves None behind
get_outline_taken(font, cache, id) ==
    IF CacheHas(cache, id)
    THEN [outline |-> CacheAt(cache, id), cache |-> cache, extracted |-> FALSE]
    ELSE [outline |-> font.outline[id],
          cache |-> Append(cache, <<id, None>>),
          extracted |-> TRUE]

\* get_outline: [outline, cache, extracted]: the entry (inserted from
\* font.outline on a miss), the cache after the call, and whether
\* font.outline was invoked
get_outline(font, cache, id) ==
    IF CacheHas(cache, id)
    THEN [outline |-> CacheAt(cache, id), cache |-> cache, extracted |-> FALSE]
    ELSE [outline |-> font.outline[id],
          cache |-> Append(cache, <<id, font.outline[id]>>),
          extracted |-> TRUE]

\* shape_with_plan: one glyph per character
Shape(font, string) ==
    [i \in 1..Len(string) |->
        LET g == font.gid[string[i]]
        IN  [glyph_id |-> g, x_advance |-> font.adv[g],
             x_offset |-> font.xoff[g], y_offset |-> font.yoff[g]]]

\* a plausible slip: the left side bearing of the first glyph, whatever its
\* advance
InitialCursorFirst(font, output) ==
    IF output = <<>> THEN F32Zero(FALSE)
    ELSE F32FromInt(font.lsb[AsU16(output[1].glyph_id)])

\* the left side bearing of the first glyph with a positive advance, or 0
InitialCursor(font, output) ==
    LET base == {i \in 1..Len(output) : output[i].x_advance > 0}
    IN  IF base = {} THEN F32Zero(FALSE)
        ELSE F32FromInt(font.lsb[AsU16(output[CHOOSE i \in base :
                                       \A j \in base : i <= j].glyph_id)])

\* the cursor before glyph i: the start plus the scaled advances before it
RECURSIVE CursorBefore(_, _, _, _)
CursorBefore(start, factor, output, i) ==
    IF i <= 1 THEN start
    ELSE F32Add(CursorBefore(start, factor, output, i - 1),
                F32Mul(F32FromInt(output[i - 1].x_advance), factor))

\* the Glyph pushed for position i of the shaper's output, where the
\* negation of line 84 wraps
PlacedGlyph(r, output, i) ==
    [id |-> AsU16(output[i].glyph_id),
     \* cursor + (position.x_offset as f32 * self.factor)
     x |-> F32Add(CursorBefore(InitialCursor(r.font, output), r.factor,
                               output, i),
                  F32Mul(F32FromInt(output[i].x_offset), r.factor)),
     \* y + self.factor * ascender, y the negated offset scaled
     y |-> F32Add(F32Mul(F32FromInt(WrappingNeg(output[i].y_offset)), r.factor),
                  F32Mul(r.factor, F32FromInt(r.font.ascender)))]

\* the negation of line 84 overflows: the loop reaches a glyph whose y
\* offset is i32::MIN, no glyph up to it having id 0
NegOverflows(output) ==
    \E i \in 1..Len(output) :
        /\ output[i].y_offset = MinI32
        /\ \A j \in 1..i : output[j].glyph_id # 0

\* "gid=<id>,position=<xoff>,<yoff>"
TraceToken(info) ==
    [gid |-> info.glyph_id, xoff |-> info.x_offset, yoff |-> info.y_offset]

\* DynamicImage::new_luma8(width, height): all pixels 0
NewImage(width, height) ==
    [width |-> width, height |-> height,
     px |-> [p \in (0..(width - 1)) \X (0..(height - 1)) |-> 0]]

\* the samples OutlinedGlyph::draw hands to the closure: (x, y, v)
Samples(outline) ==
    {<<x, y>> : x \in 0..(Len(outline.rows[1]) - 1),
                y \in 0..(Len(outline.rows) - 1)}
Coverage(outline, s) == outline.rows[s[2] + 1][s[1] + 1]

\* the literal 1.2 of line 104, as f32
OnePointTwo == F32Ratio(FALSE, 12, 10, 0)

\* a plausible slip: the gray level of the line commented out above the
\* threshold, (v * 255.0) as u8
BitmapPixelGray(v) == (v * 255) \div 10

\* what the closure adds for a sample of coverage v (in tenths)
BitmapPixel(v) == IF v > 5 THEN 255 ELSE 0

\* OutlinedGlyph::px_bounds().min: per axis, the outline's corner and the
\* fraction of the glyph's position, floored, plus the whole part of the
\* position
PxBoundsMin(glyph, outline) ==
    [x |-> F32Add(F32FloorF(F32Add(F32FromInt(outline.minx),
                                   F32Fract(glyph.x))),
                  F32Trunc(glyph.x)),
     y |-> F32Add(F32FloorF(F32Add(F32FromInt(outline.miny),
                                   F32Fract(glyph.y))),
                  F32Trunc(glyph.y))]

\* bounds.min.x as u32, bounds.min.y as u32
Corner(glyph, outline) ==
    LET Truncated(min) == <<AsU32(min.x), AsU32(min.y)>>
    IN  Truncated(PxBoundsMin(glyph, outline))

\* the pixel a sample is written to: the sample offset by the bounds'
\* corner, each sum a u32 that wraps
TargetPixel(corner, s) ==
    <<U32Add(U32FromInt(s[1]), corner[1]).value,
      U32Add(U32FromInt(s[2]), corner[2]).value>>

\* a sum of line 117 overflows: the x sum, or, the x sum being inside the
\* width, the y sum, which the || reaches only then
SumOverflows(image, corner, s) ==
    LET Summed(x, y) ==
            \/ x.overflow
            \/ U32Less(x.value, U32FromInt(image.width)) /\ y.overflow
    IN  Summed(U32Add(U32FromInt(s[1]), corner[1]),
               U32Add(U32FromInt(s[2]), corner[2]))

\* samples outside the canvas are dropped
InCanvas(image, p) ==
    /\ U32Less(p[1], U32FromInt(image.width))
    /\ U32Less(p[2], U32FromInt(image.height))

\* the closure of outlined.draw(..) on every sample: each one blended into
\* the image
DrawSamples(image, corner, outline) ==
    LET Blended(hits) ==
            [image EXCEPT !.px =
                [p \in DOMAIN image.px |->
                    IF \E h \in hits : h[1] = p
                    THEN SaturatingAdd(image.px[p],
                             BitmapPixel(Coverage(outline,
                                 (CHOOSE h \in hits : h[1] = p)[2])))
                    ELSE image.px[p]]]
    IN  Blended({<<<<U32Value(TargetPixel(corner, s)[1]),
                     U32Value(TargetPixel(corner, s)[2])>>, s>> :
                    s \in {t \in Samples(outline) :
                               InCanvas(image, TargetPixel(corner, t))}})

\* outlined.draw(..) of one glyph: [image, overflowed]: the image where
\* the sums wrap, and whether one of them overflowed
DrawGlyph(image, glyph, outline) ==
    LET Drawn(corner) ==
            [image |-> DrawSamples(image, corner, outline),
             overflowed |-> \E s \in Samples(outline) :
                                SumOverflows(image, corner, s)]
    IN  Drawn(Corner(glyph, outline))

\* the drawing loop over the glyphs, from glyph i on: [image, cache,
\* extracted, panicked]. Where overflow is checked the loop ends in a panic
\* at the first glyph with a sum that overflows, its outline fetched.
RECURSIVE DrawLoop(_, _, _, _, _, _)
DrawLoop(font, glyphs, i, image, cache, extracted) ==
    IF i > Len(glyphs)
    THEN [image |-> image, cache |-> cache, extracted |-> extracted,
          panicked |-> FALSE]
    ELSE LET Drawn(got, drawn) ==
                 IF overflow_checks /\ drawn.overflowed
                 THEN [image |-> image, cache |-> got.cache,
                       extracted |-> IF got.extracted
                                     THEN Append(extracted, glyphs[i].id)
                                     ELSE extracted,
                       panicked |-> TRUE]
                 ELSE DrawLoop(font, glyphs, i + 1, drawn.image, got.cache,
                               IF got.extracted
                               THEN Append(extracted, glyphs[i].id)
                               ELSE extracted)
         IN  Drawn(get_outline(font, cache, glyphs[i].id),
                   IF IsSome(get_outline(font, cache, glyphs[i].id).outline)
                   THEN DrawGlyph(image, glyphs[i],
                            get_outline(font, cache, glyphs[i].id).outline[1])
                   ELSE [image |-> image, overflowed |-> FALSE])

\* only the first character is looked up
UncoveredFirst(r, string) == string # <<>> /\ string[1] \notin r.codepoints
\* the cmap test: some character of the string is not in the codepoints
Uncovered(r, string) ==
    \E i \in 1..Len(string) : string[i] \notin r.codepoints

\* the loop's early return: some glyph of the shaper's output has id 0
HasNoGlyph(output) == \E i \in 1..Len(output) : output[i].glyph_id = 0

\* render_string: [result, cache, shaped, extracted, glyphs, panicked]: the
\* Option returned, the outline cache after the call, whether the shaper
\* was invoked, the glyph ids font.outline was invoked for, in order, the
\* glyphs drawn, with their positions, and whether the call panicked on an
\* integer overflow instead of returning
render_string(r, string) ==
    LET Absent(shaped) ==
            [result |-> None, cache |-> r.outline_cache, shaped |-> shaped,
             extracted |-> <<>>, glyphs |-> <<>>, panicked |-> FALSE]
        Panicked(cache, extracted) ==
            [result |-> None, cache |-> cache, shaped |-> TRUE,
             extracted |-> extracted, glyphs |-> <<>>, panicked |-> TRUE]
        Returned(output, glyphs, drawn) ==
            IF drawn.panicked THEN Panicked(drawn.cache, drawn.extracted)
            ELSE [result |-> Some([trace |-> [i \in 1..Len(output) |->
                                                 TraceToken(output[i])],
                                   image |-> drawn.image]),
                  cache |-> drawn.cache,
                  shaped |-> TRUE,
                  extracted |-> drawn.extracted,
                  glyphs |-> glyphs,
                  panicked |-> FALSE]
        \* the canvas is as wide as glyph_bounds(last_glyph).max.x
        Placed(output, glyphs) ==
            IF glyphs = <<>> THEN Absent(TRUE)
            ELSE Returned(output, glyphs,
                     DrawLoop(r.font, glyphs, 1,
                         NewImage(
                             U32Value(AsU32(
                                 F32Add(glyphs[Len(glyphs)].x,
                                        F32Mul(r.factor,
                                               F32FromInt(r.font.adv[
                                                   glyphs[Len(glyphs)].id]))))),
                             U32Value(AsU32(F32Mul(r.scale, OnePointTwo)))),
                         r.outline_cache, <<>>))
    IN  IF Uncovered(r, string) THEN Absent(FALSE)
        ELSE IF overflow_checks /\ NegOverflows(Shape(r.font, string))
        THEN Panicked(r.outline_cache, <<>>)
        ELSE IF HasNoGlyph(Shape(r.font, string)) THEN Absent(TRUE)
        ELSE Placed(Shape(r.font, string),
                    [i \in 1..Len(Shape(r.font, string)) |->
                        PlacedGlyph(r, Shape(r.font, string), i)])

(***************************************************************************)
(* dfont::DFont. A font binary also holds                                  *)
(*   cmap        the codepoints of its character map                       *)
(*   axes        its variation axes [tag, min, def, max], in order         *)
(*   instances   its named instances [name, coords], coords in axis order  *)
(* A location string is a sequence of characters.                          *)
(***************************************************************************)
Err(msg) == [ok |-> FALSE, err |-> msg]

\* DFont::new
NewDFont(binary) ==
    [backing |-> binary,
     location |-> <<>>,
     normalized_location |-> <<>>,
     codepoints |-> binary.cmap]

\* str::split(sep): the pieces between the separators (always at least one)
RECURSIVE SplitLoop(_, _, _, _)
SplitLoop(s, sep, piece, acc) ==
    IF s = <<>> THEN Append(acc, piece)
    ELSE IF Head(s) = sep THEN SplitLoop(Tail(s), sep, <<>>, Append(acc, piece))
    ELSE SplitLoop(Tail(s), sep, Append(piece, Head(s)), acc)
Split(s, sep) == SplitLoop(s, sep, <<>>, <<>>)

Digits == {"0", "1", "2", "3", "4", "5", "6", "7", "8", "9"}
DigitValue(c) ==
    CASE c = "0" -> 0 [] c = "1" -> 1 [] c = "2" -> 2 [] c = "3" -> 3
      [] c = "4" -> 4 [] c = "5" -> 5 [] c = "6" -> 6 [] c = "7" -> 7
      [] c = "8" -> 8 [] OTHER -> 9
\* the whole number a string of digits writes, acc its digits so far
RECURSIVE DecimalValue(_, _)
DecimalValue(s, acc) ==
    IF s = <<>> THEN acc
    ELSE DecimalValue(Tail(s), acc * 10 + DigitValue(Head(s)))
\* the number of digits a string starts with
RECURSIVE LeadingDigits(_)
LeadingDigits(s) ==
    IF s = <<>> \/ Head(s) \notin Digits THEN 0
    ELSE 1 + LeadingDigits(Tail(s))
Drop(s, n) == SubSeq(s, n + 1, Len(s))
UpperCase(c) ==
    CASE c = "a" -> "A" [] c = "f" -> "F" [] c = "i" -> "I" [] c = "n" -> "N"
      [] c = "t" -> "T" [] c = "y" -> "Y" [] OTHER -> c
\* s is the lower-case word, in any mix of cases
IsWord(s, word) ==
    /\ Len(s) = Len(word)
    /\ \A i \in 1..Len(s) : s[i] = word[i] \/ s[i] = UpperCase(word[i])

\* a decimal literal: digits, '.', digits (a digit on one side at least),
\* then an exponent 'e' or 'E' with an optional sign and a digit at least;
\* its value is rounded to the nearest f32
ParseDecimal(neg, s) ==
    LET Invalid == Err("invalid float literal")
        \* digits * 10^x
        Valued(digits, x) ==
            Ok(F32Ratio(neg, IF x >= 0 THEN digits * Pow10(x) ELSE digits,
                        IF x >= 0 THEN 1 ELSE Pow10(0 - x), 0))
        \* r5 follows the exponent's sign
        Scaled(digits, nf, r5, minus) ==
            IF r5 = <<>> \/ LeadingDigits(r5) # Len(r5) THEN Invalid
            ELSE Valued(digits, (IF minus THEN 0 - DecimalValue(r5, 0)
                                 ELSE DecimalValue(r5, 0)) - nf)
        \* r4 follows the 'e'
        Signed(digits, nf, r4, signed) ==
            Scaled(digits, nf, IF signed THEN Tail(r4) ELSE r4,
                   signed /\ Head(r4) = "-")
        \* r3 follows the mantissa
        Exponent(digits, nf, r3) ==
            IF r3 = <<>> THEN Valued(digits, 0 - nf)
            ELSE IF Head(r3) \notin {"e", "E"} THEN Invalid
            ELSE Signed(digits, nf, Tail(r3),
                        Tail(r3) # <<>> /\ Head(Tail(r3)) \in {"+", "-"})
        \* r2 follows the point, and starts with the nf digits of the fraction
        Fraction(ni, r2, nf) ==
            IF ni + nf = 0 THEN Invalid
            ELSE Exponent(DecimalValue(SubSeq(s, 1, ni) \o SubSeq(r2, 1, nf), 0),
                          nf, Drop(r2, nf))
        \* r1 follows the ni digits of the whole part
        Point(ni, r1, dot) ==
            Fraction(ni, IF dot THEN Tail(r1) ELSE r1,
                     IF dot THEN LeadingDigits(Tail(r1)) ELSE 0)
        Whole(ni, r1) == Point(ni, r1, r1 # <<>> /\ Head(r1) = ".")
        Integral(ni) == Whole(ni, Drop(s, ni))
    IN  Integral(LeadingDigits(s))

\* str::parse::<f32>: an optional sign, then "inf", "infinity" or "nan" in
\* any case, or a decimal literal
ParseF32(s) ==
    IF s = <<>> THEN Err("cannot parse float from empty string")
    ELSE LET neg == Head(s) = "-"
             rest == IF Head(s) \in {"+", "-"} THEN Tail(s) ELSE s
         IN  IF rest = <<>> THEN Err("invalid float literal")
             ELSE IF IsWord(rest, <<"i", "n", "f">>)
                     \/ IsWord(rest, <<"i", "n", "f", "i", "n", "i", "t", "y">>)
             THEN Ok(F32Inf(neg))
             ELSE IF IsWord(rest, <<"n", "a", "n">>) THEN Ok(F32NaN)
             ELSE ParseDecimal(neg, rest)

\* parse_location: Ok(settings), each <<axis, value>>, or the first error
RECURSIVE ParseLocationLoop(_, _)
ParseLocationLoop(variations, settings) ==
    IF variations = <<>> THEN Ok(settings)
    ELSE LET Parsed(axis, value) ==
                 IF ~value.ok THEN Err("Couldn't parse value")
                 ELSE ParseLocationLoop(Tail(variations),
                          Append(settings, <<axis, value.val>>))
             Parts(parts) ==
                 IF Len(parts) < 2 THEN Err("Couldn't parse value")
                 ELSE Parsed(parts[1], ParseF32(parts[2]))
         IN  Parts(Split(Head(variations), "="))
parse_location(variations) == ParseLocationLoop(Split(variations, ","), <<>>)

\* Fixed::from_f64(value as f64): the value in 1/65536, rounded half up,
\* saturating at the ends of i32, NaN to 0
F32ToFixed(x) ==
    IF x.k = "nan" THEN 0
    ELSE IF x.k = "inf" \/ BitLen(x.m) + x.e + 16 > 31
    THEN (IF x.neg THEN 0 - 2147483647 - 1 ELSE 2147483647)
    ELSE IF x.e + 16 >= 0
    THEN (IF x.neg THEN 0 - x.m * Pow2(x.e + 16) ELSE x.m * Pow2(x.e + 16))
    ELSE IF 0 - (x.e + 16) > 26 THEN 0
    ELSE ((IF x.neg THEN 0 - 2 * x.m ELSE 2 * x.m) + Pow2(0 - (x.e + 16)))
         \div Pow2(1 - (x.e + 16))

\* binary long division: n more digits of the quotient q, remainder r
RECURSIVE FixedDivDigits(_, _, _, _)
FixedDivDigits(q, r, b, n) ==
    IF n = 0 THEN [q |-> q, r |-> r]
    ELSE IF 2 * r >= b THEN FixedDivDigits(2 * q + 1, 2 * r - b, b, n - 1)
    ELSE FixedDivDigits(2 * q, 2 * r, b, n - 1)
\* Fixed / Fixed for a >= 0 and b >= 0, in 1/65536:
\* ((a << 16) + (b >> 1)) / b
FixedDiv(a, b) ==
    LET Rounded(d) == IF d.r + b \div 2 >= b THEN d.q + 1 ELSE d.q
    IN  IF b = 0 THEN 2147483647
        ELSE Rounded(FixedDivDigits(a \div b, a % b, b, 16))

\* Axis::normalize in 1/16384 (F2Dot14): the value clamped to the axis,
\* scaled to -1..1 around the default in 1/65536, and rounded to 1/16384
NormalizeAxis(axis, value) ==
    LET min_value == axis.min * 65536
        default_value == axis.def * 65536
        max_value == IF axis.max < axis.min THEN axis.min * 65536
                     ELSE axis.max * 65536
        Unit(scaled) ==
            IF scaled < 0 - 65536 THEN 0 - 65536
            ELSE IF scaled > 65536 THEN 65536 ELSE scaled
        Divided(neg, a, b) ==
            (Unit(IF neg THEN 0 - FixedDiv(a, b) ELSE FixedDiv(a, b)) + 2) \div 4
        Scaled(v) ==
            IF v = default_value THEN 0
            ELSE Divided(v < default_value,
                         IF v < default_value THEN default_value - v
                         ELSE v - default_value,
                         IF v < default_value THEN default_value - min_value
                         ELSE max_value - default_value)
        Clamped(given) ==
            Scaled(IF given < min_value THEN min_value
                   ELSE IF given > max_value THEN max_value ELSE given)
    IN  Clamped(F32ToFixed(value))

\* AxisCollection::location(settings): every axis at its default, then each
\* setting, in order, applied to the axes of its tag
AxesLocation(axes, settings) ==
    [i \in 1..Len(axes) |->
        LET mine == {j \in 1..Len(settings) : settings[j][1] = axes[i].tag}
        IN  IF mine = {} THEN 0
            ELSE NormalizeAxis(axes[i],
                     settings[CHOOSE j \in mine : \A k \in mine : k <= j][2])]

\* a plausible slip: the normalized location is recomputed before the error
\* is returned
set_location_eager(dfont, variations) ==
    LET Parsed(parsed) ==
            IF ~parsed.ok
            THEN [font |-> [dfont EXCEPT
                               !.normalized_location =
                                   AxesLocation(dfont.backing.axes,
                                                dfont.location)],
                  result |-> parsed]
            ELSE [font |-> [dfont EXCEPT
                               !.location = parsed.val,
                               !.normalized_location =
                                   AxesLocation(dfont.backing.axes, parsed.val)],
                  result |-> Ok(<<>>)]
    IN  Parsed(parse_location(variations))

\* set_location: [font, result]
set_location(dfont, variations) ==
    LET Parsed(parsed) ==
            IF ~parsed.ok THEN [font |-> dfont, result |-> parsed]
            ELSE [font |-> [dfont EXCEPT
                               !.location = parsed.val,
                               !.normalized_location =
                                   AxesLocation(dfont.backing.axes, parsed.val)],
                  result |-> Ok(<<>>)]
    IN  Parsed(parse_location(variations))

\* zip(a, b): as long as the shorter
Zip(a, b) ==
    [i \in 1..(IF Len(a) < Len(b) THEN Len(a) ELSE Len(b)) |-> <<a[i], b[i]>>]

\* set_instance: [font, result]
set_instance(dfont, instance) ==
    LET named == dfont.backing.instances
        found == {i \in 1..Len(named) : named[i].name = instance}
    IN  IF found = {}
        THEN [font |-> dfont,
              result |-> Err("No instance named " \o instance)]
        ELSE LET axes == dfont.backing.axes
                 Located(user) ==
                     [font |-> [dfont EXCEPT
                                   !.location = user,
                                   !.normalized_location =
                                       [i \in 1..Len(user) |->
                                           NormalizeAxis(axes[i], user[i][2])]],
                      result |-> Ok(<<>>)]
                 \* user_coords(): the instance's coordinates as f32
                 Instance(ni) ==
                     Located(Zip([i \in 1..Len(axes) |-> axes[i].tag],
                                 [i \in 1..Len(ni.coords) |->
                                     F32FromInt(ni.coords[i])]))
             IN  Instance(named[CHOOSE i \in found : \A j \in found : i <= j])

(***************************************************************************)
(* render: test_font_glyphs and test_font_words (spec.md 4.4 "Visual       *)
(* Comparison Engine", 4.5 "Result Aggregator")                            *)
(***************************************************************************)
\* the codepoints of the model, with their display string, U+XXXX form,
\* name and script
Cps == {65, 66}
CpString(cp) == IF cp = 65 THEN "A" ELSE "B"
CpUnicode(cp) == IF cp = 65 THEN "U+0041" ELSE "U+0042"
CpName(cp) ==
    IF cp = 65 THEN "LATIN CAPITAL LETTER A" ELSE "LATIN CAPITAL LETTER B"
\* Codepoint::script, cut to the letters A-Z and a-z: no other codepoint is
\* in a character map of the model
CpScript(cp) ==
    IF cp \in 65..90 \/ cp \in 97..122 THEN Some("Latin") ELSE None

\* a set of numbers in ascending order
RECURSIVE SortedSeq(_)
SortedSeq(set) ==
    IF set = {} THEN <<>>
    ELSE LET m == CHOOSE x \in set : \A y \in set : x <= y
         IN  <<m>> \o SortedSeq(set \ {m})

\* the pixel of an image, None outside its extent
PixelAt(image, p) ==
    IF p \in DOMAIN image.px THEN Some(image.px[p]) ELSE None

\* percent difference of two bitmaps: the pixels of the union of the two
\* extents whose intensities differ (a pixel only one bitmap has differs),
\* scaled to 0..100
PercentDifference(image_a, image_b) ==
    LET w == IF image_a.width > image_b.width THEN image_a.width
             ELSE image_b.width
        h == IF image_a.height > image_b.height THEN image_a.height
             ELSE image_b.height
        all == (0..(w - 1)) \X (0..(h - 1))
        differing == {q \in all : PixelAt(image_a, q) # PixelAt(image_b, q)}
    IN  IF all = {} THEN 0
        ELSE (100 * Cardinality(differing)) \div Cardinality(all)

GlyphDiffEntry(cp, percent) ==
    Obj(<<<<"string", Str(CpString(cp))>>,
          <<"unicode", Str(CpUnicode(cp))>>,
          <<"name", Str(CpName(cp))>>,
          <<"percent", Num(percent)>>>>)

\* the category of a probe rendered by both fonts, and its percent:
\* "none" when no entry is emitted
Classify(render_a, render_b) ==
    IF ~IsSome(render_a) /\ IsSome(render_b)
    THEN [category |-> "new", percent |-> 100]
    ELSE IF IsSome(render_a) /\ ~IsSome(render_b)
    THEN [category |-> "missing", percent |-> 100]
    ELSE IF ~IsSome(render_a) /\ ~IsSome(render_b)
    THEN [category |-> "none", percent |-> 0]
    ELSE LET percent == PercentDifference(render_a[1].image, render_b[1].image)
         IN  IF percent > 0 THEN [category |-> "modified", percent |-> percent]
             ELSE [category |-> "none", percent |-> 0]

ArrayPush(array, x) == Arr(Append(array.v, x))

\* in place of a returned value: a render_string call panicked, and the
\* panic unwinds through the caller
Unwound == [t |-> "unwound"]

\* the loop of test_font_glyphs over the codepoints, one renderer a font
RECURSIVE GlyphLoop(_, _, _, _)
GlyphLoop(cps, renderer_a, renderer_b, acc) ==
    IF cps = <<>> THEN acc
    ELSE LET Classified(cp, ra, rb, class) ==
                 GlyphLoop(Tail(cps),
                     [renderer_a EXCEPT !.outline_cache = ra.cache],
                     [renderer_b EXCEPT !.outline_cache = rb.cache],
                     IF class.category = "none" THEN acc
                     ELSE MapInsert(acc, class.category,
                              ArrayPush(MapIndex(acc, class.category),
                                        GlyphDiffEntry(cp, class.percent))))
             Drawn(cp, ra, rb) ==
                 IF ra.panicked \/ rb.panicked THEN Unwound
                 ELSE Classified(cp, ra, rb, Classify(ra.result, rb.result))
         IN  Drawn(Head(cps), render_string(renderer_a, <<Head(cps)>>),
                   render_string(renderer_b, <<Head(cps)>>))

\* every codepoint of the union of both character maps, in numerical order,
\* rendered as a one-character string
test_font_glyphs(fa, fb) ==
    GlyphLoop(SortedSeq(fa.codepoints \cup fb.codepoints),
              NewRenderer(fa, F32FromInt(FontSize)), NewRenderer(fb, F32FromInt(FontSize)),
              Obj(<<<<"missing", Arr(<<>>)>>, <<"new", Arr(<<>>)>>,
                    <<"modified", Arr(<<>>)>>>>))

\* char::from_u32: None for a surrogate and above the last scalar value
char_from_u32(cp) ==
    IF cp \in 0..55295 \/ cp \in 57344..1114111 THEN Some(cp) ELSE None

\* DFont::supported_scripts: the scripts of the codepoints of the cmap that
\* are chars and have a script
supported_scripts(dfont) ==
    {CpScript(cp)[1] :
        cp \in {c \in dfont.backing.cmap :
                    /\ IsSome(char_from_u32(c))
                    /\ IsSome(CpScript(c))}}

\* wordlists::get_wordlist: the words of a script, each a string of
\* codepoints
Scripts == <<"Latin">>
\* the names get_wordlist matches (lines 67-108)
WordlistScripts ==
    {"Adlam", "Arabic", "Armenian", "Avestan", "Bengali", "Bopomofo",
     "Canadian_Aboriginal", "Chakma", "Cherokee", "Common", "Cyrillic",
     "Devanagari", "Ethiopic", "Georgian", "Grantha", "Greek", "Gujarati",
     "Gurmukhi", "Hebrew", "Hiragana", "Japanese", "Kannada", "Katakana",
     "Khmer", "Lao", "Latin", "Lisu", "Malayalam", "Mongolian", "Myanmar",
     "Ol_Chiki", "Oriya", "Osage", "Sinhala", "Syriac", "Tamil", "Telugu",
     "Thai", "Thanaa", "Tibetan", "Tifinagh", "Vai"}
\* the lines of a decompressed list. The lists are data files; Latin is
\* two words over the modelled codepoints, and the lists of the scripts no
\* modelled font supports are left without words.
WordsOf(name) ==
    IF name = "Latin" THEN <<<<65, 66>>, <<66, 65>>>> ELSE <<>>
get_wordlist(name) ==
    IF name \in WordlistScripts THEN Some(WordsOf(name)) ELSE None

\* wordlists::get_script_tag: the arms of the match, name and
\* rustybuzz::script constant
ScriptTags ==
    <<<<"Adlam", "ADLAM">>, <<"Arabic", "ARABIC">>,
      <<"Armenian", "ARMENIAN">>, <<"Avestan", "AVESTAN">>,
      <<"Bengali", "BENGALI">>, <<"Bopomofo", "BOPOMOFO">>,
      <<"Canadian_Aboriginal", "CANADIAN_SYLLABICS">>,
      <<"Chakma", "CHAKMA">>, <<"Cherokee", "CHEROKEE">>,
      <<"Common", "COMMON">>, <<"Cyrillic", "CYRILLIC">>,
      <<"Devanagari", "DEVANAGARI">>, <<"Ethiopic", "ETHIOPIC">>,
      <<"Georgian", "GEORGIAN">>, <<"Grantha", "GRANTHA">>,
      <<"Greek", "GREEK">>, <<"Gujarati", "GUJARATI">>,
      <<"Gurmukhi", "GURMUKHI">>, <<"Hebrew", "HEBREW">>,
      <<"Hiragana", "HIRAGANA">>, <<"Kannada", "KANNADA">>,
      <<"Katakana", "KATAKANA">>, <<"Khmer", "KHMER">>, <<"Lao", "LAO">>,
      <<"Latin", "LATIN">>, <<"Lisu", "LISU">>,
      <<"Malayalam", "MALAYALAM">>, <<"Mongolian", "MONGOLIAN">>,
      <<"Myanmar", "MYANMAR">>, <<"Ol_Chiki", "OL_CHIKI">>,
      <<"Oriya", "ORIYA">>, <<"Osage", "OSAGE">>,
      <<"Sinhala", "SINHALA">>, <<"Syriac", "SYRIAC">>,
      <<"Tamil", "TAMIL">>, <<"Telugu", "TELUGU">>, <<"Thai", "THAI">>,
      <<"Tibetan", "TIBETAN">>, <<"Tifinagh", "TIFINAGH">>,
      <<"Vai", "VAI">>>>
get_script_tag(name) ==
    IF \E i \in 1..Len(ScriptTags) : ScriptTags[i][1] = name
    THEN Some(ScriptTags[CHOOSE i \in 1..Len(ScriptTags) :
                             ScriptTags[i][1] = name][2])
    ELSE None

\* wordlists::get_script_direction
get_script_direction(name) ==
    IF name \in {"Arabic", "Avestan", "Hebrew", "Syriac", "Thanaa"}
    THEN "RightToLeft"
    ELSE "LeftToRight"
RECURSIVE WordString(_)
WordString(word) ==
    IF word = <<>> THEN "" ELSE CpString(Head(word)) \o WordString(Tail(word))

WordDiffEntry(word, percent) ==
    Obj(<<<<"word", Str(WordString(word))>>, <<"percent", Num(percent)>>>>)

\* the words of one script: an entry for every word both fonts render with
\* a percent above 0, in word-list order
RECURSIVE WordLoop(_, _, _, _)
WordLoop(words, renderer_a, renderer_b, acc) ==
    IF words = <<>> THEN acc
    ELSE LET Compared(ra, rb, percent) ==
                 WordLoop(Tail(words),
                     [renderer_a EXCEPT !.outline_cache = ra.cache],
                     [renderer_b EXCEPT !.outline_cache = rb.cache],
                     IF percent > 0
                     THEN ArrayPush(acc, WordDiffEntry(Head(words), percent))
                     ELSE acc)
             Drawn(ra, rb) ==
                 IF ra.panicked \/ rb.panicked THEN Unwound
                 ELSE Compared(ra, rb,
                          IF IsSome(ra.result) /\ IsSome(rb.result)
                          THEN PercentDifference(ra.result[1].image,
                                                 rb.result[1].image)
                          ELSE 0)
         IN  Drawn(render_string(renderer_a, Head(words)),
                   render_string(renderer_b, Head(words)))

\* every script either font supports that has a word list
RECURSIVE ScriptLoop(_, _, _, _)
ScriptLoop(scripts, fa, fb, map) ==
    IF scripts = <<>> THEN map
    ELSE LET Collected(script, entries) ==
                 IF entries = Unwound THEN Unwound
                 ELSE ScriptLoop(Tail(scripts), fa, fb,
                          IF is_something(entries)
                          THEN MapInsert(map, script, entries)
                          ELSE map)
         IN  Collected(Head(scripts),
                 IF IsSome(get_wordlist(Head(scripts)))
                    /\ Head(scripts) \in supported_scripts(fa)
                                             \cup supported_scripts(fb)
                 THEN WordLoop(get_wordlist(Head(scripts))[1],
                               NewRenderer(fa, F32FromInt(FontSize)),
                               NewRenderer(fb, F32FromInt(FontSize)),
                               Arr(<<>>))
                 ELSE Arr(<<>>))

test_font_words(fa, fb) == ScriptLoop(Scripts, fa, fb, Obj(<<>>))

(***************************************************************************)
(* bin/diffenator3: the text report. What is printed is a sequence of      *)
(* lines; a value printed with {} is kept as the Value. A report is        *)
(* [lines, panicked]: panicked when an unwrap failed and printing stopped. *)
(***************************************************************************)
\* one side of a printed pair: the value, or "<absent>"
Absent == [absent |-> TRUE]
Shown(x) == [absent |-> FALSE, value |-> x]

\* a plausible slip: the succinct flag is not looked at
PairLineBoth(field, indent, left, right, succinct) ==
    [kind |-> "pair", indent |-> indent, field |-> field,
     left |-> Shown(left), right |-> Shown(right)]

\* the three ways show_map_diff prints a leaf pair
PairLine(field, indent, left, right, succinct) ==
    IF succinct /\ (is_something(left) /\ ~is_something(right))
    THEN [kind |-> "pair", indent |-> indent, field |-> field,
          left |-> Shown(left), right |-> Absent]
    ELSE IF succinct /\ (is_something(right) /\ ~is_something(left))
    THEN [kind |-> "pair", indent |-> indent, field |-> field,
          left |-> Absent, right |-> Shown(right)]
    ELSE [kind |-> "pair", indent |-> indent, field |-> field,
          left |-> Shown(left), right |-> Shown(right)]

RECURSIVE ShowEntries(_, _, _, _)
\* the loop of show_map_diff from entry i on
ShowEntries(entries, indent, succinct, lines) ==
    IF entries = <<>> THEN [lines |-> lines, panicked |-> FALSE]
    ELSE LET field == Head(entries)[1]
             d == Head(entries)[2]
         IN  IF field = "error"
             THEN IF IsString(d)
                  THEN ShowEntries(Tail(entries), indent, succinct,
                           Append(lines, [kind |-> "error", indent |-> indent,
                                          text |-> d.v]))
                  \* diff.as_str().unwrap() on a value that is no string,
                  \* after the indentation is printed
                  ELSE [lines |-> Append(lines, [kind |-> "indent",
                                                 indent |-> indent]),
                        panicked |-> TRUE]
             ELSE IF IsArray(d)
             THEN IF Len(d.v) < 2
                  \* lr[0], lr[1] out of range, after the indentation is
                  \* printed
                  THEN [lines |-> Append(lines, [kind |-> "indent",
                                                 indent |-> indent]),
                        panicked |-> TRUE]
                  ELSE ShowEntries(Tail(entries), indent, succinct,
                           Append(lines, PairLine(field, indent, d.v[1], d.v[2],
                                                  succinct)))
             ELSE IF IsObject(d)
             THEN LET inner == ShowEntries(d.v, indent + 1, succinct,
                                   Append(lines, [kind |-> "fields",
                                                  indent |-> indent,
                                                  field |-> field]))
                  IN  IF inner.panicked THEN inner
                      ELSE ShowEntries(Tail(entries), indent, succinct,
                                       inner.lines)
             \* neither a pair nor an object: only the indentation is printed
             ELSE ShowEntries(Tail(entries), indent, succinct,
                      Append(lines, [kind |-> "indent", indent |-> indent]))

show_map_diff(fields, indent, succinct) ==
    ShowEntries(fields.v, indent, succinct, <<>>)

\* the three ways main prints a table whose diff is a leaf pair
TablePairLine(left, right, succinct) ==
    IF succinct /\ (is_something(left) /\ ~is_something(right))
    THEN [kind |-> "lhs_only"]
    ELSE IF succinct /\ (is_something(right) /\ ~is_something(left))
    THEN [kind |-> "rhs_only"]
    ELSE [kind |-> "had", left |-> Shown(left), right |-> Shown(right)]

RECURSIVE PrintTablesLoop(_, _, _)
\* main's loop over diff["tables"]
PrintTablesLoop(entries, succinct, lines) ==
    IF entries = <<>> THEN [lines |-> lines, panicked |-> FALSE]
    ELSE LET table_name == Head(entries)[1]
             d == Head(entries)[2]
             headed == IF is_something(d)
                       THEN Append(lines, [kind |-> "table", name |-> table_name])
                       ELSE lines
         IN  IF IsArray(d)
             THEN IF Len(d.v) < 2 THEN [lines |-> headed, panicked |-> TRUE]
                  ELSE PrintTablesLoop(Tail(entries), succinct,
                           Append(headed, TablePairLine(d.v[1], d.v[2], succinct)))
             ELSE IF IsObject(d)
             THEN LET shown == show_map_diff(d, 0, succinct)
                  IN  IF shown.panicked
                      THEN [lines |-> headed \o shown.lines, panicked |-> TRUE]
                      ELSE PrintTablesLoop(Tail(entries), succinct,
                                           headed \o shown.lines)
             ELSE PrintTablesLoop(Tail(entries), succinct,
                      Append(headed, [kind |-> "unexpected", value |-> d]))

\* the "tables" part of the text report
PrintTables(dm, succinct) ==
    IF ~ContainsKey(dm, "tables") THEN [lines |-> <<>>, panicked |-> FALSE]
    \* diff["tables"].as_object().unwrap()
    ELSE IF ~IsObject(MapIndex(dm, "tables"))
    THEN [lines |-> <<>>, panicked |-> TRUE]
    ELSE PrintTablesLoop(MapIndex(dm, "tables").v, succinct, <<>>)

\* display_glyph: one line for an entry of a category
GlyphLine(category, glyph) ==
    [kind |-> "glyph", category |-> category,
     string |-> MapIndex(glyph, "string").v,
     unicode |-> MapIndex(glyph, "unicode").v,
     name |-> MapIndex(glyph, "name").v,
     percent |-> MapIndex(glyph, "percent").v]

\* a plausible slip: every section copied from the first, still reading
\* map["missing"]
GlyphSectionCopied(map, key, heading) ==
    LET array == MapIndex(map, "missing")
    IN  IF is_something(array)
        THEN <<[kind |-> "heading", text |-> heading]>>
             \o [i \in 1..Len(array.v) |-> GlyphLine(key, array.v[i])]
        ELSE <<>>

\* one category of the glyph report: its heading and its entries, when the
\* array is something
GlyphSection(map, key, heading) ==
    LET array == MapIndex(map, key)
    IN  IF is_something(array)
        THEN <<[kind |-> "heading", text |-> heading]>>
             \o [i \in 1..Len(array.v) |-> GlyphLine(key, array.v[i])]
        ELSE <<>>

\* the "glyphs" part of the text report
PrintGlyphs(dm) ==
    IF ~ContainsKey(dm, "glyphs") THEN <<>>
    ELSE LET map == MapIndex(dm, "glyphs")
         IN  <<[kind |-> "heading", text |-> "# Glyphs"]>>
             \o GlyphSection(map, "missing", "Missing glyphs:")
             \o GlyphSection(map, "new", "New glyphs:")
             \o GlyphSection(map, "modified", "Modified glyphs:")

RECURSIVE PrintWordsLoop(_, _)
PrintWordsLoop(entries, lines) ==
    IF entries = <<>> THEN lines
    ELSE LET script == Head(entries)[1]
             script_diff == Head(entries)[2]
         IN  PrintWordsLoop(Tail(entries),
                 Append(lines, [kind |-> "script", name |-> script])
                 \o [i \in 1..Len(script_diff.v) |->
                        [kind |-> "word",
                         word |-> MapIndex(script_diff.v[i], "word").v,
                         percent |-> MapIndex(script_diff.v[i], "percent").v]])

\* the "words" part of the text report
PrintWords(dm) ==
    IF ~ContainsKey(dm, "words") THEN <<>>
    ELSE PrintWordsLoop(MapIndex(dm, "words").v,
                        <<[kind |-> "heading", text |-> "# Words"]>>)

\* the whole text report (main, lines 163-229)
TextReport(dm, succinct) ==
    LET tables == PrintTables(dm, succinct)
    IN  IF tables.panicked THEN tables
        ELSE [lines |-> tables.lines \o PrintGlyphs(dm) \o PrintWords(dm),
              panicked |-> FALSE]

(***************************************************************************)
(* The Value trees of the diff harness                                     *)
(***************************************************************************)
\* the whole number of nodes of the two trees of one comparison
MaxNodes == 5

Keys == {"a", "b"}
Leaves ==
    {Null, Bool(FALSE), Num(0), Str(""), Str("x"), Arr(<<>>), Arr(<<Num(0)>>)}

\* the Value trees of exactly n nodes (an Array counts as one node)
RECURSIVE TreesOfSize(_)
TreesOfSize(n) ==
    IF n <= 0 THEN {}
    ELSE IF n = 1 THEN Leaves \cup {Obj(<<>>)}
    ELSE {Obj(<<<<k, c>>>>) : k \in Keys, c \in TreesOfSize(n - 1)}
         \cup UNION {
              {Obj(<<<<k1, c1>>, <<k2, c2>>>>) :
                   k1 \in Keys, k2 \in Keys, c1 \in TreesOfSize(i),
                   c2 \in TreesOfSize(n - 1 - i)} \
              {Obj(<<<<k, c1>>, <<k, c2>>>>) :
                   k \in Keys, c1 \in TreesOfSize(i),
                   c2 \in TreesOfSize(n - 1 - i)}
              : i \in 1..(n - 2)}

DiffInputs ==
    UNION {UNION {TreesOfSize(i) \X TreesOfSize(j) : j \in 1..(MaxNodes - i)} :
               i \in 1..(MaxNodes - 1)}

\* a font binary whose only table is a head table serialising to x
HeadOnlyFont(x) ==
    [dir |-> <<[tag |-> "head", data |-> Ok(x)]>>, names |-> DecodeErr]

\* lines 139-144 of main: the tables step on the diff map
MainTablesAlways(map, ref_a, ref_b) ==
    MapInsert(map, "tables", table_diff(ref_a, ref_b))
MainTables(map, ref_a, ref_b) ==
    LET td == table_diff(ref_a, ref_b)
    IN  IF is_something(td) THEN MapInsert(map, "tables", td) ELSE map

MainIdle ==
    /\ pc = "idle"
    /\ cli = <<>> /\ font_a = <<>> /\ font_b = <<>>
    /\ diffmap = Obj(<<>>) /\ stdout = <<>> /\ html_file = None
    /\ called = <<>> /\ hack = <<>>

RenderIdle ==
    /\ rpc = "idle"
    /\ renderer = <<>> /\ rcalls = 0 /\ rlast = <<>> /\ extractions = <<>>

DiffIdle ==
    /\ dpc = "idle"
    /\ dl = Null /\ dr = Null
    /\ dres = Null /\ dswap = Null /\ dself = Null /\ dmap = Obj(<<>>)

ScriptIdle ==
    /\ spc = "idle"
    /\ script_name = "" /\ wordlist = None /\ script_tag = None /\ direction = ""

InitDiff ==
    /\ dpc = "input"
    /\ \E p \in DiffInputs : dl = p[1] /\ dr = p[2]
    /\ dres = Null /\ dswap = Null /\ dself = Null /\ dmap = Obj(<<>>)
    /\ MainIdle /\ RenderIdle /\ ScriptIdle
    /\ overflow_checks = FALSE

\* diff(&left, &right)
DiffLeftRight ==
    /\ dpc = "input"
    /\ dres' = diff(dl, dr)
    /\ dpc' = "diffed"
    /\ UNCHANGED <<dl, dr, dswap, dself, dmap>>
    /\ UNCHANGED <<mainVars, renderVars, scriptVars, buildVars>>

\* diff(&right, &left)
DiffRightLeft ==
    /\ dpc = "diffed"
    /\ dswap' = diff(dr, dl)
    /\ dpc' = "swapped"
    /\ UNCHANGED <<dl, dr, dres, dself, dmap>>
    /\ UNCHANGED <<mainVars, renderVars, scriptVars, buildVars>>

\* diff(&left, &left), and main's tables step for a font against itself
DiffSelf ==
    /\ dpc = "swapped"
    /\ dself' = diff(dl, dl)
    /\ dmap' = MainTables(Obj(<<>>), HeadOnlyFont(dl), HeadOnlyFont(dl))
    /\ dpc' = "done"
    /\ UNCHANGED <<dl, dr, dres, dswap>>
    /\ UNCHANGED <<mainVars, renderVars, scriptVars, buildVars>>

NextDiff == DiffLeftRight \/ DiffRightLeft \/ DiffSelf

SpecDiff == InitDiff /\ [][NextDiff]_vars

(***************************************************************************)
(* SpecScripts: the three lookups of render/wordlists on one script name   *)
(***************************************************************************)
\* the names with a word list, and names that have none: a different
\* spelling, a script without a list, a different case, the empty name
ScriptInputs == WordlistScripts \cup {"Thaana", "Han", "latin", ""}

InitScripts ==
    /\ spc = "start"
    /\ script_name \in ScriptInputs
    /\ wordlist = None /\ script_tag = None /\ direction = ""
    /\ MainIdle /\ RenderIdle /\ DiffIdle
    /\ overflow_checks = FALSE

\* get_wordlist(script_name)
GetWordlist ==
    /\ spc = "start"
    /\ wordlist' = get_wordlist(script_name)
    /\ spc' = "wordlist"
    /\ UNCHANGED <<script_name, script_tag, direction>>
    /\ UNCHANGED <<mainVars, renderVars, diffVars, buildVars>>

\* get_script_tag(script_name)
GetScriptTag ==
    /\ spc = "wordlist"
    /\ script_tag' = get_script_tag(script_name)
    /\ spc' = "tag"
    /\ UNCHANGED <<script_name, wordlist, direction>>
    /\ UNCHANGED <<mainVars, renderVars, diffVars, buildVars>>

\* get_script_direction(script_name)
GetScriptDirection ==
    /\ spc = "tag"
    /\ direction' = get_script_direction(script_name)
    /\ spc' = "done"
    /\ UNCHANGED <<script_name, wordlist, script_tag>>
    /\ UNCHANGED <<mainVars, renderVars, diffVars, buildVars>>

NextScripts == GetWordlist \/ GetScriptTag \/ GetScriptDirection
SpecScripts == InitScripts /\ [][NextScripts]_vars

(***************************************************************************)
(* The fonts of the model                                                  *)
(***************************************************************************)
GlyphIds == {0, 1, 2}

\* one fully covered pixel above the baseline
Box == [minx |-> 0, miny |-> -1, rows |-> <<<<10>>>>]
\* two by two pixels starting left of the glyph's position, with a sample
\* of coverage 0.5 and one of 0.3
Edge == [minx |-> -1, miny |-> -1, rows |-> <<<<5, 10>>, <<10, 3>>>>]
OutlineChoices == {None, Some(Box), Some(Edge)}

XOff == [g \in GlyphIds |-> IF g = 2 THEN -1 ELSE 0]
YOff == [g \in GlyphIds |-> 0]
Lsb == [g \in GlyphIds |-> IF g = 1 THEN 1 ELSE 0]
Advances ==
    {[g \in GlyphIds |-> IF g = 1 THEN a[1] ELSE IF g = 2 THEN a[2] ELSE 1] :
        a \in {<<1, 1>>, <<2, 0>>}}

\* the part of a font binary the renderer reads
RenderPart(c, g, a, o) ==
    [cmap |-> c, gid |-> g, adv |-> a, xoff |-> XOff, yoff |-> YOff,
     lsb |-> Lsb,
     outline |-> [i \in GlyphIds |-> IF i = 0 THEN Some(Box) ELSE o[i]],
     ascender |-> 1, upem |-> FontSize]

\* fonts a unit higher than the font size: the renderer's factor is a
\* fraction
TallParts ==
    {[RenderPart(Cps, g, a, o) EXCEPT !.upem = FontSize + 1] :
        g \in [Cps -> {1, 2}], a \in Advances,
        o \in [{1, 2} -> {Some(Box), Some(Edge)}]}

\* fonts whose character map lacks the second codepoint
NarrowParts ==
    {RenderPart({65}, [cp \in Cps |-> IF cp = 65 THEN i ELSE 0], a, o) :
        i \in GlyphIds, a \in Advances, o \in [{1, 2} -> OutlineChoices]}

\* fonts of one unit with offsets at the ends of i32: glyph 1 is lowered
\* by i32::MAX units, so that its pixel bounds start at u32::MAX, and the
\* y offset of glyph 2 is i32::MIN; the two characters have different
\* glyphs
EndYOff ==
    [g \in GlyphIds |->
        IF g = 1 THEN 0 - 2147483647 ELSE IF g = 2 THEN MinI32 ELSE 0]
EndParts ==
    {[RenderPart(Cps, g, [i \in GlyphIds |-> 1], o)
         EXCEPT !.upem = 1, !.yoff = EndYOff] :
        g \in {h \in [Cps -> GlyphIds] : h[65] # h[66]},
        o \in {[i \in {1, 2} |-> IF i = 1 THEN first ELSE Some(Box)] :
                  first \in {Some(Box), Some(Edge)}}}

\* fonts whose two characters have different glyphs (a glyph is drawn
\* twice by a string that repeats a character)
RenderParts ==
    {RenderPart(Cps, g, a, o) :
        g \in {h \in [Cps -> GlyphIds] : h[65] # h[66]}, a \in Advances,
        o \in [{1, 2} -> OutlineChoices]}
    \cup NarrowParts \cup TallParts \cup EndParts

\* the longest string rendered, and the number of render_string calls made
\* on one Renderer
MaxStrLen == 2
MaxCalls == 2
Strings == UNION {[1..n -> Cps] : n \in 0..MaxStrLen}

(***************************************************************************)
(* SpecRender: a Renderer for one font, and render_string called on it     *)
(***************************************************************************)
InitRender ==
    /\ rpc = "ready"
    \* either build; no sum overflows but on the fonts of EndParts, and the
    \* others are run in one build
    /\ \E binary \in RenderParts :
          /\ renderer = NewRenderer(NewDFont(binary), F32FromInt(FontSize))
          /\ overflow_checks \in (IF binary \in EndParts THEN BOOLEAN
                                  ELSE {FALSE})
    /\ rcalls = 0
    /\ rlast = <<>>
    /\ extractions = [g \in GlyphIds |-> 0]
    /\ MainIdle /\ DiffIdle /\ ScriptIdle

\* renderer.render_string(string)
RenderString(string) ==
    /\ rpc = "ready"
    /\ rcalls < MaxCalls
    /\ LET Returned(call) ==
               /\ renderer' = [renderer EXCEPT !.outline_cache = call.cache]
               /\ rlast' = <<[string |-> string, result |-> call.result,
                              shaped |-> call.shaped,
                              glyphs |-> call.glyphs,
                              panicked |-> call.panicked,
                              cache_before |-> renderer.outline_cache]>>
               /\ rpc' = IF call.panicked THEN "panicked" ELSE "ready"
               /\ extractions' =
                     [g \in GlyphIds |->
                         extractions[g]
                         + Cardinality({i \in 1..Len(call.extracted) :
                                           call.extracted[i] = g})]
       IN  Returned(render_string(renderer, string))
    /\ rcalls' = rcalls + 1
    /\ UNCHANGED <<mainVars, diffVars, scriptVars, buildVars>>

NextRender == \E string \in Strings : RenderString(string)

SpecRender == InitRender /\ [][NextRender]_vars

(***************************************************************************)
(* Spec: one run of main. Init is the state after Cli::parse, the two      *)
(* files read and DFont::new on each.                                      *)
(***************************************************************************)
\* the serialised head tables of the model
HeadValues ==
    {Obj(<<<<"a", Num(0)>>>>),
     Obj(<<<<"a", Str("")>>, <<"b", Str("x")>>>>),
     Obj(<<<<"a", Obj(<<<<"b", Arr(<<Num(0)>>)>>>>)>>>>),
     Obj(<<<<"a", Obj(<<<<"b", Null>>>>)>>, <<"b", Bool(FALSE)>>>>)}

TableTags == {"head", "zzzz", "name"}
TableData(tag) ==
    IF tag = "head" THEN {DecodeErr} \cup {Ok(x) : x \in HeadValues}
    ELSE IF tag = "zzzz"
         THEN {DecodeErr, Ok([bytes |-> <<>>]), Ok([bytes |-> <<7>>])}
    ELSE {Ok([bytes |-> <<7>>])}

\* the longest table directory
MaxTables == 2

\* the table directories of at most n records, no tag twice
RECURSIVE Directories(_)
Directories(n) ==
    IF n = 0 THEN {<<>>}
    ELSE Directories(n - 1) \cup
         UNION {{Append(d, [tag |-> tag, data |-> data]) :
                    data \in TableData(tag)} :
                <<d, tag>> \in
                    {x \in Directories(n - 1) \X TableTags :
                        /\ Len(x[1]) = n - 1
                        /\ \A i \in 1..Len(x[1]) : x[1][i].tag # x[2]}}

NameRecords ==
    <<[id |-> 2, lang |-> "en", s |-> "Regular"],
      [id |-> 1, lang |-> "", s |-> "Family"],
      [id |-> 1, lang |-> "en", s |-> "Family"]>>

TableParts == {[dir |-> d, names |-> Ok(NameRecords)] : d \in Directories(MaxTables)}
PlainTables ==
    [dir |-> <<[tag |-> "head", data |-> Ok(Obj(<<<<"a", Num(0)>>>>))]>>,
     names |-> DecodeErr]
OtherTables ==
    [dir |-> <<[tag |-> "head",
                data |-> Ok(Obj(<<<<"a", Obj(<<<<"b", Arr(<<Num(0)>>)>>>>)>>>>))]>>,
     names |-> DecodeErr]

\* the fonts of the glyph runs: A maps to glyph 1, B to glyph 0 or 2
GlyphRunParts ==
    {RenderPart(c, [cp \in Cps |-> IF cp = 65 THEN 1 ELSE g],
                [i \in GlyphIds |-> 1],
                [i \in {1, 2} |-> IF i = 1 THEN o ELSE Some(Box)]) :
        c \in SUBSET Cps, g \in {0, 2}, o \in OutlineChoices}
\* fonts of the overflow runs: A maps to glyph 1, B to glyph 2
EndRunParts ==
    {r \in EndParts : r.gid[65] = 1 /\ r.gid[66] = 2}
PlainRender ==
    RenderPart({65}, [cp \in Cps |-> 1], [i \in GlyphIds |-> 1],
               [i \in {1, 2} |-> Some(Box)])

\* static, variable with a named instance, variable without
VarParts ==
    {[axes |-> <<>>, instances |-> <<>>],
     [axes |-> <<[tag |-> <<"w">>, min |-> 1, def |-> 2, max |-> 9]>>,
      instances |-> <<[name |-> "Bold", coords |-> <<9>>]>>],
     [axes |-> <<[tag |-> <<"w">>, min |-> 1, def |-> 2, max |-> 9]>>,
      instances |-> <<>>]}
PlainVar == [axes |-> <<>>, instances |-> <<>>]

\* a font binary from its three parts
Binary(t, r, x) ==
    [dir |-> t.dir, names |-> t.names,
     cmap |-> r.cmap, gid |-> r.gid, adv |-> r.adv, xoff |-> r.xoff,
     yoff |-> r.yoff, lsb |-> r.lsb, outline |-> r.outline,
     ascender |-> r.ascender, upem |-> r.upem,
     axes |-> x.axes, instances |-> x.instances]

\* the --location strings: at most MaxLocLen characters
MaxLocLen == 3
LocChars == {"w", "4", "=", ","}
\* values for the axis w in the other forms of a float literal, and
\* strings that are none
LocValues ==
    {<<"4", ".", "5">>, <<"4", ".">>, <<".", "5">>, <<"-", "4">>,
     <<"+", "4">>, <<"1", "e", "3">>, <<"5", "E", "-", "1">>,
     <<"i", "n", "f">>, <<"-", "I", "n", "f", "i", "n", "i", "t", "y">>,
     <<"N", "a", "N">>, <<"1", "e">>, <<"e", "3">>, <<".">>, <<"-">>,
     <<"4", ".", "5", ".">>, <<"i", "n", "f", "i">>}
LocStrings ==
    UNION {[1..n -> LocChars] : n \in 0..MaxLocLen}
    \cup {<<"w", "=">> \o v : v \in LocValues}

Flags(succinct, tables, glyphs, words, json, html, location, instance) ==
    [succinct |-> succinct, tables |-> tables, glyphs |-> glyphs,
     words |-> words, json |-> json, html |-> html,
     location |-> location, instance |-> instance]

InitMainVars(c, a, b) ==
    /\ pc = "config"
    /\ cli = c
    /\ font_a = NewDFont(a)
    /\ font_b = NewDFont(b)
    /\ diffmap = Obj(<<>>)
    /\ stdout = <<>>
    /\ html_file = None
    /\ called = <<>>
    /\ hack = <<>>

\* runs over the table directories, text report
InitTableRuns ==
    \E ta \in TableParts, tb \in TableParts, succinct \in BOOLEAN :
        InitMainVars(Flags(succinct, TRUE, FALSE, FALSE, FALSE, FALSE, None, None),
                     Binary(ta, PlainRender, PlainVar),
                     Binary(tb, PlainRender, PlainVar))

\* runs over the glyphs and words, text report
InitGlyphRuns ==
    \E ra \in GlyphRunParts, rb \in GlyphRunParts :
        InitMainVars(Flags(TRUE, FALSE, TRUE, TRUE, FALSE, FALSE, None, None),
                     Binary(PlainTables, ra, PlainVar),
                     Binary(PlainTables, rb, PlainVar))

\* runs over --location and --instance, text report; the words are
\* compared when the glyphs are
InitConfigRuns ==
    \E xa \in VarParts, xb \in VarParts, tables \in BOOLEAN, glyphs \in BOOLEAN,
       where \in {<<None, None>>, <<None, Some("Bold")>>, <<None, Some("Thin")>>}
                 \cup {<<Some(l), None>> : l \in LocStrings} :
        InitMainVars(Flags(TRUE, tables, glyphs, glyphs, FALSE, FALSE,
                           where[1], where[2]),
                     Binary(PlainTables, PlainRender, xa),
                     Binary(OtherTables, PlainRender, xb))

\* runs over the flags
InitFlagRuns ==
    \E succinct \in BOOLEAN, tables \in BOOLEAN, glyphs \in BOOLEAN,
       words \in BOOLEAN, json \in BOOLEAN, html \in BOOLEAN,
       tb \in {PlainTables, OtherTables} :
        InitMainVars(Flags(succinct, tables, glyphs, words, json, html, None, None),
                     Binary(PlainTables, PlainRender, PlainVar),
                     Binary(tb, PlainRender, PlainVar))

\* runs over one font binary given twice, everything enabled
InitSameRuns ==
    \E t \in TableParts, r \in GlyphRunParts, x \in VarParts :
        InitMainVars(Flags(TRUE, TRUE, TRUE, TRUE, FALSE, FALSE, None, None),
                     Binary(t, r, x), Binary(t, r, x))

\* runs over the glyphs and words of a font with offsets at the ends of
\* i32, in either build
InitOverflowRuns ==
    \E ra \in EndRunParts, rb \in EndRunParts \cup {PlainRender},
       glyphs \in BOOLEAN, words \in BOOLEAN :
        InitMainVars(Flags(TRUE, FALSE, glyphs, words, FALSE, FALSE, None, None),
                     Binary(PlainTables, ra, PlainVar),
                     Binary(PlainTables, rb, PlainVar))

\* no sum overflows but in the runs of InitOverflowRuns, and the others
\* are run in one build
Init ==
    /\ \/ /\ \/ InitTableRuns \/ InitGlyphRuns \/ InitConfigRuns
             \/ InitFlagRuns \/ InitSameRuns
          /\ overflow_checks = FALSE
       \/ InitOverflowRuns /\ overflow_checks \in BOOLEAN
    /\ RenderIdle /\ DiffIdle /\ ScriptIdle

\* DFont::fontref
fontref(dfont) == dfont.backing

\* lines 131-133: --location; both results are dropped
ConfigLocation ==
    /\ pc = "config"
    /\ IsSome(cli.location)
    /\ LET Both(set_a, set_b) ==
               /\ font_a' = set_a.font
               /\ font_b' = set_b.font
               /\ hack' = <<set_a.result, set_b.result>>
       IN  Both(set_location(font_a, cli.location[1]),
                set_location(font_b, cli.location[1]))
    /\ pc' = "tables"
    /\ UNCHANGED <<cli, diffmap, stdout, html_file, called>>
    /\ UNCHANGED <<renderVars, diffVars, scriptVars, buildVars>>

\* lines 134-137: --instance; expect() panics on the first Err
ConfigInstance ==
    /\ pc = "config"
    /\ ~IsSome(cli.location)
    /\ IsSome(cli.instance)
    /\ LET Both(set_a, set_b) ==
               /\ font_a' = set_a.font
               /\ font_b' = IF set_a.result.ok THEN set_b.font ELSE font_b
               /\ pc' = IF set_a.result.ok /\ set_b.result.ok THEN "tables"
                        ELSE "panicked"
       IN  Both(set_instance(font_a, cli.instance[1]),
                set_instance(font_b, cli.instance[1]))
    /\ UNCHANGED <<cli, diffmap, stdout, html_file, called, hack>>
    /\ UNCHANGED <<renderVars, diffVars, scriptVars, buildVars>>

\* neither option
ConfigNone ==
    /\ pc = "config"
    /\ ~IsSome(cli.location)
    /\ ~IsSome(cli.instance)
    /\ pc' = "tables"
    /\ UNCHANGED <<cli, font_a, font_b, diffmap, stdout, html_file, called, hack>>
    /\ UNCHANGED <<renderVars, diffVars, scriptVars, buildVars>>

\* lines 139-144
StepTables ==
    /\ pc = "tables"
    /\ IF cli.tables
       THEN /\ diffmap' = MainTables(diffmap, fontref(font_a), fontref(font_b))
            /\ called' = Append(called, "table_diff")
       ELSE UNCHANGED <<diffmap, called>>
    /\ pc' = "glyphs"
    /\ UNCHANGED <<cli, font_a, font_b, stdout, html_file, hack>>
    /\ UNCHANGED <<renderVars, diffVars, scriptVars, buildVars>>

\* lines 145-150 on the diff map
MainGlyphs(map, dfont_a, dfont_b) ==
    LET Inserted(glyph_diff) ==
            IF glyph_diff = Unwound THEN Unwound
            ELSE IF is_something(glyph_diff)
            THEN MapInsert(map, "glyphs", glyph_diff)
            ELSE map
    IN  Inserted(test_font_glyphs(dfont_a, dfont_b))

StepGlyphs ==
    /\ pc = "glyphs"
    /\ IF cli.glyphs
       THEN LET Called(map) ==
                    IF map = Unwound
                    THEN pc' = "panicked" /\ UNCHANGED diffmap
                    ELSE pc' = "words" /\ diffmap' = map
            IN  /\ Called(MainGlyphs(diffmap, font_a, font_b))
                /\ called' = Append(called, "test_font_glyphs")
       ELSE pc' = "words" /\ UNCHANGED <<diffmap, called>>
    /\ UNCHANGED <<cli, font_a, font_b, stdout, html_file, hack>>
    /\ UNCHANGED <<renderVars, diffVars, scriptVars, buildVars>>

\* lines 151-154 on the diff map
MainWords(map, dfont_a, dfont_b) ==
    LET Inserted(word_diff) ==
            IF word_diff = Unwound THEN Unwound
            ELSE MapInsert(map, "words", word_diff)
    IN  Inserted(test_font_words(dfont_a, dfont_b))

StepWords ==
    /\ pc = "words"
    /\ IF cli.words
       THEN LET Called(map) ==
                    IF map = Unwound
                    THEN pc' = "panicked" /\ UNCHANGED diffmap
                    ELSE pc' = "output" /\ diffmap' = map
            IN  /\ Called(MainWords(diffmap, font_a, font_b))
                /\ called' = Append(called, "test_font_words")
       ELSE pc' = "output" /\ UNCHANGED <<diffmap, called>>
    /\ UNCHANGED <<cli, font_a, font_b, stdout, html_file, hack>>
    /\ UNCHANGED <<renderVars, diffVars, scriptVars, buildVars>>

\* lines 155-157 and do_html: the page is written and the process exits
OutputHtml ==
    /\ pc = "output"
    /\ cli.html
    /\ stdout' = Append(stdout, [kind |-> "writing_output"])
    /\ html_file' = Some(diffmap)
    /\ pc' = "exited"
    /\ UNCHANGED <<cli, font_a, font_b, diffmap, called, hack>>
    /\ UNCHANGED <<renderVars, diffVars, scriptVars, buildVars>>

\* a plausible slip: no exit after the JSON, the text report follows
OutputJsonNoExit ==
    /\ pc = "output"
    /\ ~cli.html
    /\ cli.json
    /\ LET report == TextReport(diffmap, cli.succinct)
       IN  /\ stdout' = Append(stdout, [kind |-> "json", value |-> diffmap])
                         \o report.lines
           /\ pc' = IF report.panicked THEN "panicked" ELSE "returned"
    /\ UNCHANGED <<cli, font_a, font_b, diffmap, html_file, called, hack>>
    /\ UNCHANGED <<renderVars, diffVars, scriptVars, buildVars>>

\* lines 158-161: the JSON is printed and the process exits
OutputJson ==
    /\ pc = "output"
    /\ ~cli.html
    /\ cli.json
    /\ stdout' = Append(stdout, [kind |-> "json", value |-> diffmap])
    /\ pc' = "exited"
    /\ UNCHANGED <<cli, font_a, font_b, diffmap, html_file, called, hack>>
    /\ UNCHANGED <<renderVars, diffVars, scriptVars, buildVars>>

\* lines 163-229: the text report
OutputText ==
    /\ pc = "output"
    /\ ~cli.html
    /\ ~cli.json
    /\ LET report == TextReport(diffmap, cli.succinct)
       IN  /\ stdout' = stdout \o report.lines
           /\ pc' = IF report.panicked THEN "panicked" ELSE "returned"
    /\ UNCHANGED <<cli, font_a, font_b, diffmap, html_file, called, hack>>
    /\ UNCHANGED <<renderVars, diffVars, scriptVars, buildVars>>

Next ==
    \/ ConfigLocation
    \/ ConfigInstance
    \/ ConfigNone
    \/ StepTables
    \/ StepGlyphs
    \/ StepWords
    \/ OutputHtml
    \/ OutputJson
    \/ OutputText

Spec == Init /\ [][Next]_vars

(***************************************************************************)
(* The structural diff (SpecDiff)                                          *)
(***************************************************************************)
\* "no difference": Null for a leaf, the empty Object for two Objects
IsEmptyDiff(d) == d = Null \/ d = Obj(<<>>)

\* the key paths of a diff tree that end in a leaf pair
RECURSIVE DiffPaths(_)
DiffPaths(d) ==
    IF IsArray(d) THEN {<<>>}
    ELSE IF IsObject(d)
    THEN UNION {{<<k>> \o q : q \in DiffPaths(MapIndex(d, k))} : k \in KeySet(d)}
    ELSE {}

RECURSIVE NodeAt(_, _)
NodeAt(d, path) ==
    IF path = <<>> THEN d ELSE NodeAt(MapIndex(d, Head(path)), Tail(path))

\* C1: diff(X, X) is empty for every Value tree X, and so is diff(A, B) for
\* equal A and B; the table diff of a font against itself is not something
\* and main's tables step inserts no "tables" key for it.
C1_AntiReflexive ==
    /\ dpc = "done" => IsEmptyDiff(dself) /\ ~is_something(dself)
    /\ (dpc # "input" /\ dl = dr) => IsEmptyDiff(dres)
    /\ dpc = "done" =>
          /\ ~is_something(table_diff(HeadOnlyFont(dl), HeadOnlyFont(dl)))
          /\ ~ContainsKey(dmap, "tables")

\* a tree nested two Objects deep, with a leaf that is something, diffed
\* against itself
C1_Witness ==
    /\ dpc = "done"
    /\ IsObject(dl)
    /\ \E i \in 1..Len(dl.v) :
          /\ IsObject(dl.v[i][2])
          /\ \E j \in 1..Len(dl.v[i][2].v) : is_something(dl.v[i][2].v[j][2])

\* C2: a key absent on one side and present with Null on the other is
\* reported (diff({}, {"a": null}) reports a), while a key that is Null on
\* both sides is not.
C2_AbsentVersusNull ==
    dpc # "input" /\ IsObject(dl) /\ IsObject(dr) =>
        \A k \in Keys :
            /\ (~ContainsKey(dl, k) /\ ContainsKey(dr, k)
                /\ MapIndex(dr, k) = Null) => ContainsKey(dres, k)
            /\ (ContainsKey(dl, k) /\ ContainsKey(dr, k)
                /\ MapIndex(dl, k) = Null /\ MapIndex(dr, k) = Null)
                   => ~ContainsKey(dres, k)

\* C3: diff(A, B) and diff(B, A) hold the same key paths, and the leaf pair
\* [l, r] at a path of diff(A, B) is [r, l] at that path of diff(B, A).
C3_SwapSymmetric ==
    dpc \in {"swapped", "done"} =>
        /\ DiffPaths(dres) = DiffPaths(dswap)
        /\ IsEmptyDiff(dres) <=> IsEmptyDiff(dswap)
        /\ \A q \in DiffPaths(dres) :
              LET lr == NodeAt(dres, q).v
                  rl == NodeAt(dswap, q).v
              IN  Len(lr) = 2 /\ rl = <<lr[2], lr[1]>>

\* two Objects whose keys come in different orders, with two differing
\* keys, one of them absent on the right
C3_Witness ==
    /\ dpc = "swapped"
    /\ IsObject(dl) /\ IsObject(dr)
    /\ Len(dl.v) = 2 /\ Len(dr.v) = 1
    /\ dr.v[1][1] = dl.v[2][1]
    /\ Cardinality(DiffPaths(dres)) = 2
    /\ KeySeq(dres) # KeySeq(dswap)

(***************************************************************************)
(* The renderer (SpecRender)                                               *)
(***************************************************************************)
\* C6: a string with a character whose codepoint is not in the font's
\* codepoints renders to None: the call returns, the shaper is not invoked,
\* nothing is drawn and no outline is extracted.
C6_CoveragePrecheck ==
    rlast # <<>> =>
        LET call == rlast[1]
        IN  (\E i \in 1..Len(call.string) :
                 call.string[i] \notin renderer.codepoints)
            => /\ call.result = None
               /\ ~call.panicked
               /\ ~call.shaped
               /\ renderer.outline_cache = call.cache_before

\* a two-character string whose first character the font covers (and maps
\* to a glyph with an outline) and whose second it does not
C6_Witness ==
    /\ rlast # <<>>
    /\ Len(rlast[1].string) = 2
    /\ rlast[1].string[1] \in renderer.codepoints
    /\ renderer.font.gid[rlast[1].string[1]] # 0
    /\ IsSome(renderer.font.outline[renderer.font.gid[rlast[1].string[1]]])
    /\ rlast[1].string[2] \notin renderer.codepoints
    /\ rlast[1].result = None
    /\ ~rlast[1].panicked

\* C7: when the shaper's output holds glyph id 0 at any position, or is
\* empty, render_string returns None; a Some result holds at least one
\* glyph and no glyph id 0.
C7_UnmappedIsAbsent ==
    rlast # <<>> =>
        LET call == rlast[1]
            output == Shape(renderer.font, call.string)
        IN  /\ (/\ call.shaped
                /\ \E i \in 1..Len(output) : output[i].glyph_id = 0)
                   => call.result = None /\ ~call.panicked
            /\ (call.shaped /\ output = <<>>)
                   => call.result = None /\ ~call.panicked
            /\ IsSome(call.result) =>
                   /\ call.shaped
                   /\ Len(call.result[1].trace) >= 1
                   /\ \A i \in 1..Len(call.result[1].trace) :
                          call.result[1].trace[i].gid # 0

\* a covered two-character string whose first glyph is a real glyph and
\* whose last glyph is glyph 0: render_string returns None
C7_LastGlyphZero ==
    /\ rlast # <<>>
    /\ rlast[1].shaped
    /\ Len(rlast[1].string) = 2
    /\ renderer.font.gid[rlast[1].string[1]] # 0
    /\ renderer.font.gid[rlast[1].string[2]] = 0
    /\ rlast[1].result = None
    /\ ~rlast[1].panicked

\* the same string when the first glyph's y offset is i32::MIN and
\* overflow panics: line 84 negates the offset before the loop comes to
\* glyph 0, and the call does not return
C7_PanicAheadOfGlyphZero ==
    /\ rlast # <<>>
    /\ overflow_checks
    /\ Len(rlast[1].string) = 2
    /\ renderer.font.gid[rlast[1].string[1]] # 0
    /\ renderer.font.gid[rlast[1].string[2]] = 0
    /\ renderer.font.yoff[renderer.font.gid[rlast[1].string[1]]] = MinI32
    /\ rlast[1].panicked

(***************************************************************************)
(* Claims about a run of main (Spec)                                       *)
(***************************************************************************)
TablesDone == \E i \in 1..Len(called) : called[i] = "table_diff"
DirTags(font) == {font.dir[i].tag : i \in 1..Len(font.dir)}
DirRecord(font, tag) ==
    font.dir[CHOOSE i \in 1..Len(font.dir) : font.dir[i].tag = tag]
FailsToDecode(font, tag) ==
    tag \in DirTags(font) /\ ~DirRecord(font, tag).data.ok
Decodes(font, tag) ==
    tag \in DirTags(font) /\ DirRecord(font, tag).data.ok
TablesOfDiff ==
    IF ContainsKey(diffmap, "tables") THEN KeySet(MapIndex(diffmap, "tables"))
    ELSE {}
FailureMarker == Str("Could not parse")

\* C4: once the tables have been diffed, every table whose decoding fails
\* on at least one side (also on both) has an entry in the table diff.
C4_FailureAlwaysDifferent ==
    TablesDone =>
        \A tag \in (DirTags(fontref(font_a)) \cup DirTags(fontref(font_b)))
                   \ {"name"} :
            (FailsToDecode(fontref(font_a), tag)
             \/ FailsToDecode(fontref(font_b), tag))
            => tag \in TablesOfDiff

\* a table fails to decode on the left only and is reported
C4_OneSideFails ==
    /\ TablesDone
    /\ \E tag \in TablesOfDiff :
          /\ FailsToDecode(fontref(font_a), tag)
          /\ Decodes(fontref(font_b), tag)

\* C5: font_to_json has exactly one entry for every tag of the table
\* directory plus "name": the failure marker for a table that fails to
\* decode, a decoded value for any other; and a table that decodes on one
\* side is still diffed when the other side's table fails, is absent or
\* differs.
C5_FailureIsolated ==
    TablesDone =>
        /\ \A font \in {fontref(font_a), fontref(font_b)} :
              LET Entries(json) ==
                      /\ IsObject(json)
                      /\ KeySet(json) = DirTags(font) \cup {"name"}
                      /\ \A i \in 1..Len(json.v), j \in 1..Len(json.v) :
                            json.v[i][1] = json.v[j][1] => i = j
                      /\ \A tag \in DirTags(font) \ {"name"} :
                            /\ FailsToDecode(font, tag)
                               => MapIndex(json, tag) = FailureMarker
                            /\ Decodes(font, tag)
                               => MapIndex(json, tag) # FailureMarker
              IN  Entries(font_to_json(font))
        /\ \A tag \in (DirTags(fontref(font_a)) \cup DirTags(fontref(font_b)))
                      \ {"name"} :
              \/ /\ Decodes(fontref(font_a), tag)
                 /\ Decodes(fontref(font_b), tag)
                 /\ DirRecord(fontref(font_a), tag).data
                        = DirRecord(fontref(font_b), tag).data
              \/ /\ FailsToDecode(fontref(font_a), tag)
                 /\ FailsToDecode(fontref(font_b), tag)
              \/ tag \in TablesOfDiff

\* a font with a table that fails to decode and one that decodes, and the
\* second is reported
C5_Witness ==
    /\ TablesDone
    /\ \E bad \in DirTags(fontref(font_a)), good \in DirTags(fontref(font_a)) :
          /\ FailsToDecode(fontref(font_a), bad)
          /\ Decodes(fontref(font_a), good)
          /\ good # "name"
          /\ good \in TablesOfDiff
          /\ MapIndex(font_to_json(fontref(font_a)), bad) = FailureMarker

GlyphsDone == \E i \in 1..Len(called) : called[i] = "test_font_glyphs"
Probes == font_a.codepoints \cup font_b.codepoints
RenderOf(dfont, cp) == render_string(NewRenderer(dfont, F32FromInt(FontSize)), <<cp>>).result
\* the category the classification rule gives a codepoint
CategoryOf(cp) ==
    LET Compared(render_a, render_b) ==
            IF IsSome(render_a) /\ ~IsSome(render_b) THEN "missing"
            ELSE IF ~IsSome(render_a) /\ IsSome(render_b) THEN "new"
            ELSE IF ~IsSome(render_a) /\ ~IsSome(render_b) THEN "none"
            ELSE IF render_a[1].image = render_b[1].image THEN "none"
            ELSE "modified"
    IN  IF cp \notin Probes THEN "none"
        ELSE Compared(RenderOf(font_a, cp), RenderOf(font_b, cp))
Categories == {"missing", "new", "modified"}
\* the entries of a category for a codepoint in the glyph diff
EntriesFor(category, cp) ==
    LET array == MapIndex(MapIndex(diffmap, "glyphs"), category)
    IN  {i \in 1..Len(array.v) :
            MapIndex(array.v[i], "string") = Str(CpString(cp))}
\* the lines of a category for a codepoint in the text report
LinesFor(category, cp) ==
    {i \in 1..Len(stdout) :
        /\ stdout[i].kind = "glyph"
        /\ stdout[i].category = category
        /\ stdout[i].string = CpString(cp)}

\* C8: in the glyph diff and in the text report, a codepoint A renders and
\* B does not has one entry, under missing; one B renders and A does not
\* has one entry, under new; one both render with different bitmaps has
\* one entry, under modified, with a percent above 0; any other has none.
C8_Classification ==
    (GlyphsDone /\ pc = "returned") =>
        \A cp \in Cps, category \in Categories :
            LET n == IF CategoryOf(cp) = category THEN 1 ELSE 0
            IN  /\ Cardinality(EntriesFor(category, cp)) = n
                /\ Cardinality(LinesFor(category, cp)) = n
                /\ \A i \in LinesFor(category, cp) :
                      IF category = "modified"
                      THEN stdout[i].percent > 0 /\ stdout[i].percent <= 100
                      ELSE stdout[i].percent = 100

\* a report with a modified codepoint and a missing one
C8_Witness ==
    /\ GlyphsDone /\ pc = "returned"
    /\ \E cp \in Cps, other \in Cps :
          /\ CategoryOf(cp) = "modified" /\ LinesFor("modified", cp) # {}
          /\ CategoryOf(other) = "missing" /\ LinesFor("missing", other) # {}

\* a report with a new codepoint and one neither font renders
C8_WitnessNew ==
    /\ GlyphsDone /\ pc = "returned"
    /\ \E cp \in Cps, other \in Cps :
          /\ CategoryOf(cp) = "new" /\ LinesFor("new", cp) # {}
          /\ other \in Probes
          /\ ~IsSome(RenderOf(font_a, other)) /\ ~IsSome(RenderOf(font_b, other))

LacksInstance(dfont, name) ==
    \A i \in 1..Len(dfont.backing.instances) :
        dfont.backing.instances[i].name # name

\* C9: when set_location returned Err for either font, or --instance names
\* an instance either font lacks, none of table_diff, test_font_glyphs and
\* test_font_words is ever called and nothing is printed.
C9_ConfigErrorFatal ==
    /\ (hack # <<>> /\ (~hack[1].ok \/ ~hack[2].ok))
       => (called = <<>> /\ stdout = <<>>)
    /\ (/\ ~IsSome(cli.location)
        /\ IsSome(cli.instance)
        /\ LacksInstance(font_a, cli.instance[1])
           \/ LacksInstance(font_b, cli.instance[1]))
       => (called = <<>> /\ stdout = <<>>)

\* the leaf pairs of a diff node, depth first in key order
RECURSIVE LeafPairs(_)
RECURSIVE LeafPairsOfEntries(_)
LeafPairs(d) ==
    IF IsArray(d) THEN <<d.v>>
    ELSE IF IsObject(d) THEN LeafPairsOfEntries(d.v)
    ELSE <<>>
LeafPairsOfEntries(entries) ==
    IF entries = <<>> THEN <<>>
    ELSE LeafPairs(Head(entries)[2]) \o LeafPairsOfEntries(Tail(entries))

\* the lines of the report that stand for a leaf pair
PairLines ==
    SelectSeq(stdout, LAMBDA line :
        line.kind \in {"pair", "had", "lhs_only", "rhs_only"})
\* what a line shows for the two sides
LineShows(line) ==
    IF line.kind \in {"pair", "had"} THEN <<line.left, line.right>>
    ELSE <<line.kind>>
\* what the succinct rendering rule shows for a leaf pair
RuleShows(left, right, succinct) ==
    IF succinct /\ is_something(left) /\ ~is_something(right)
    THEN <<Shown(left), Absent>>
    ELSE IF succinct /\ is_something(right) /\ ~is_something(left)
    THEN <<Absent, Shown(right)>>
    ELSE <<Shown(left), Shown(right)>>

\* C10: in a finished text report, the leaf pairs of the table diff are
\* shown in order, each by the succinct rendering rule: the left value and
\* absent, absent and the right value, or both values.
C10_SuccinctRule ==
    (pc = "returned" /\ ContainsKey(diffmap, "tables")) =>
        LET pairs == LeafPairs(MapIndex(diffmap, "tables"))
        IN  /\ Len(PairLines) = Len(pairs)
            /\ \A i \in 1..Len(pairs) :
                  LineShows(PairLines[i])
                      = RuleShows(pairs[i][1], pairs[i][2], cli.succinct)

\* what main prints for a table whose diff is a leaf pair
TableShows(left, right, succinct) ==
    IF succinct /\ is_something(left) /\ ~is_something(right)
    THEN <<"lhs_only">>
    ELSE IF succinct /\ is_something(right) /\ ~is_something(left)
    THEN <<"rhs_only">>
    ELSE <<Shown(left), Shown(right)>>
RECURSIVE TablesShow(_, _)
\* what the report shows for the leaf pairs of the table diff, in order
TablesShow(entries, succinct) ==
    IF entries = <<>> THEN <<>>
    ELSE LET d == Head(entries)[2]
             pairs == LeafPairs(d)
         IN  (IF IsArray(d) THEN <<TableShows(d.v[1], d.v[2], succinct)>>
              ELSE [i \in 1..Len(pairs) |->
                       RuleShows(pairs[i][1], pairs[i][2], succinct)])
             \o TablesShow(Tail(entries), succinct)

\* C10 (amended): in a finished text report the leaf pairs of the table
\* diff are shown in order; a leaf pair inside a table is shown by the
\* succinct rendering rule; a leaf pair that is a whole table is shown, in
\* succinct mode when only one side is something, as the side that had the
\* table, without a value, and by both values in every other case.
C10_SuccinctRuleInsideTables ==
    (pc = "returned" /\ ContainsKey(diffmap, "tables")) =>
        [i \in 1..Len(PairLines) |-> LineShows(PairLines[i])]
            = TablesShow(MapIndex(diffmap, "tables").v, cli.succinct)

\* a succinct report with a table only the left font has and, inside
\* another table, a field only the left side has and one only the right has
C10_Witness ==
    /\ pc = "returned" /\ cli.succinct /\ ContainsKey(diffmap, "tables")
    /\ \E i \in 1..Len(stdout) : stdout[i].kind = "lhs_only"
    /\ \E i \in 1..Len(stdout) :
          /\ stdout[i].kind = "pair"
          /\ stdout[i].right = Absent
          /\ stdout[i].indent > 0
    /\ \E i \in 1..Len(stdout) :
          stdout[i].kind = "pair" /\ stdout[i].left = Absent

(***************************************************************************)
(* Claims about the outline cache (SpecRender)                             *)
(***************************************************************************)
\* C11: over the render_string calls made on one Renderer, font.outline is
\* invoked at most once for any glyph id.
C11_ExtractedOnce == \A g \in GlyphIds : extractions[g] <= 1

\* a second or later call that draws a glyph the cache already held, the
\* glyph extracted once in all
C11_Witness ==
    /\ rcalls >= 2
    /\ rlast # <<>>
    /\ IsSome(rlast[1].result)
    /\ \E i \in 1..Len(rlast[1].result[1].trace) :
          LET g == rlast[1].result[1].trace[i].gid
          IN  /\ CacheHas(rlast[1].cache_before, g)
              /\ extractions[g] = 1

\* the ids of a cache, in order
CacheIds(cache) == [i \in 1..Len(cache) |-> cache[i][1]]

\* C20: after every step, every entry of the outline cache is font.outline
\* of its glyph id (None for a glyph without an outline) and no id is cached
\* twice; a step keeps every entry the cache had, unchanged; and a
\* render_string call that returns None leaves the cache as it was (a call
\* that panics returns nothing, and keeps the outlines it had fetched).
C20_CacheCoherent ==
    [][/\ \A i \in 1..Len(renderer'.outline_cache) :
             /\ renderer'.outline_cache[i][2]
                    = renderer'.font.outline[renderer'.outline_cache[i][1]]
             /\ \A j \in 1..Len(renderer'.outline_cache) :
                    renderer'.outline_cache[i][1] = renderer'.outline_cache[j][1]
                    => i = j
       /\ \A i \in 1..Len(renderer.outline_cache) :
             /\ CacheHas(renderer'.outline_cache, renderer.outline_cache[i][1])
             /\ CacheAt(renderer'.outline_cache, renderer.outline_cache[i][1])
                    = renderer.outline_cache[i][2]
       /\ (rlast' # <<>> /\ rlast'[1].result = None /\ ~rlast'[1].panicked)
          => renderer'.outline_cache = renderer.outline_cache]_vars

\* a cache that holds an outline and a None, after a call that returned
\* None on a cache that was not empty
C20_Witness ==
    /\ rlast # <<>>
    /\ rlast[1].result = None
    /\ ~rlast[1].panicked
    /\ rlast[1].cache_before # <<>>
    /\ renderer.outline_cache = rlast[1].cache_before
    /\ \E i \in 1..Len(renderer.outline_cache) :
          renderer.outline_cache[i][2] = None
    /\ \E i \in 1..Len(renderer.outline_cache) :
          IsSome(renderer.outline_cache[i][2])

(***************************************************************************)
(* Claims about the bitmap of render_string (SpecRender)                   *)
(***************************************************************************)
Rendered == rlast # <<>> /\ IsSome(rlast[1].result)
LastImage == rlast[1].result[1].image
\* the glyphs of the last call that have an outline
Outlined == {i \in 1..Len(rlast[1].glyphs) :
                IsSome(renderer.font.outline[rlast[1].glyphs[i].id])}
OutlineOf(i) == renderer.font.outline[rlast[1].glyphs[i].id][1]
\* the samples of the glyphs of the last call, each <<glyph, sample, pixel>>
\* with the pixel the closure's sums give it
Targets ==
    UNION {LET At(corner) ==
                   {<<i, s, TargetPixel(corner, s)>> : s \in Samples(OutlineOf(i))}
           IN  At(Corner(rlast[1].glyphs[i], OutlineOf(i))) : i \in Outlined}
\* the samples <<glyph, sample>> among targets that the closure adds to
\* pixel p
SamplesAt(targets, p) ==
    {<<t[1], t[2]>> :
        t \in {u \in targets : u[3] = <<U32FromInt(p[1]), U32FromInt(p[2])>>}}
Min255(n) == IF n > 255 THEN 255 ELSE n

\* C12: in a rendered bitmap every pixel is min(255, 255 times the number
\* of samples drawn on it whose coverage is at least 0.5), and so stays
\* within 0..255.
C12_ThresholdAndSaturation ==
    Rendered =>
        LET Blended(targets) ==
                \A p \in DOMAIN LastImage.px :
                    /\ LastImage.px[p] \in 0..255
                    /\ LastImage.px[p]
                           = Min255(255 * Cardinality(
                                 {gs \in SamplesAt(targets, p) :
                                     Coverage(OutlineOf(gs[1]), gs[2]) >= 5}))
        IN  Blended(Targets)

\* C12 (amended): in a rendered bitmap every pixel is min(255, 255 times
\* the number of samples drawn on it whose coverage is above 0.5): a sample
\* of coverage 0.5 or less adds nothing; every pixel stays within 0..255.
C12_ThresholdAbove ==
    Rendered =>
        LET Blended(targets) ==
                \A p \in DOMAIN LastImage.px :
                    /\ LastImage.px[p] \in 0..255
                    /\ LastImage.px[p]
                           = Min255(255 * Cardinality(
                                 {gs \in SamplesAt(targets, p) :
                                     Coverage(OutlineOf(gs[1]), gs[2]) > 5}))
        IN  Blended(Targets)

\* a bitmap with a pixel that only samples of coverage 0.5 or less were
\* drawn on, one of them of coverage 0.5, and a pixel two samples above 0.5
\* were drawn on
C12_Witness ==
    /\ Rendered
    /\ \E p \in DOMAIN LastImage.px :
          /\ LastImage.px[p] = 0
          /\ \E gs \in SamplesAt(Targets, p) :
                Coverage(OutlineOf(gs[1]), gs[2]) = 5
    /\ \E p \in DOMAIN LastImage.px :
          /\ LastImage.px[p] = 255
          /\ Cardinality({gs \in SamplesAt(Targets, p) :
                             Coverage(OutlineOf(gs[1]), gs[2]) > 5}) >= 2

\* the glyphs that cover pixel p fully
FullyCovering(p) ==
    {i \in Outlined :
        \E s \in Samples(OutlineOf(i)) :
            /\ <<i, s>> \in SamplesAt(Targets, p)
            /\ Coverage(OutlineOf(i), s) = 10}

\* C13: in a rendered bitmap a pixel two or more glyphs cover fully does
\* not have the intensity of a pixel one glyph covers fully.
C13_OverlapDistinguishable ==
    Rendered =>
        \A p \in DOMAIN LastImage.px :
            Cardinality(FullyCovering(p)) >= 2
            => LastImage.px[p] # SaturatingAdd(0, BitmapPixel(10))

\* the cursor after the first n glyphs of the shaper's output: the start,
\* moved by each scaled advance in turn
RECURSIVE CursorAfter(_, _, _)
CursorAfter(start, output, n) ==
    IF n = 0 THEN start
    ELSE F32Add(CursorAfter(start, output, n - 1),
                F32Mul(F32FromInt(output[n].x_advance), renderer.factor))

\* C16: the glyphs of a rendered string are placed from a cursor that
\* starts at the left side bearing of the first glyph with a positive
\* advance (0 when there is none): glyph i is at the start moved by the
\* scaled advances of the glyphs before it, plus its own scaled x offset.
C16_GlyphPositions ==
    Rendered =>
        LET output == Shape(renderer.font, rlast[1].string)
            positive == {i \in 1..Len(output) : output[i].x_advance > 0}
            start == IF positive = {} THEN F32Zero(FALSE)
                     ELSE F32FromInt(renderer.font.lsb[
                              output[CHOOSE i \in positive :
                                         \A j \in positive : i <= j].glyph_id])
        IN  /\ Len(rlast[1].glyphs) = Len(output)
            /\ \A i \in 1..Len(output) :
                  /\ rlast[1].glyphs[i].id = output[i].glyph_id
                  /\ rlast[1].glyphs[i].x
                         = F32Add(CursorAfter(start, output, i - 1),
                                  F32Mul(F32FromInt(output[i].x_offset),
                                         renderer.factor))

\* a rendered string whose first glyph has no advance and whose second has
\* one, a left side bearing and a glyph before it, in a font whose factor
\* is not a whole number: the first glyph lies left of the second by its
\* scaled offset
C16_Witness ==
    /\ Rendered
    /\ Len(rlast[1].glyphs) >= 2
    /\ LET output == Shape(renderer.font, rlast[1].string)
       IN  /\ output[1].x_advance = 0
           /\ output[2].x_advance > 0
           /\ renderer.font.lsb[output[2].glyph_id] > 0
           /\ renderer.font.lsb[output[1].glyph_id] = 0
           /\ output[1].x_offset < 0
           /\ renderer.factor.e < 0
           /\ rlast[1].glyphs[2].x
                  = F32FromInt(renderer.font.lsb[output[2].glyph_id])
           /\ rlast[1].glyphs[1].x # rlast[1].glyphs[2].x
           /\ F32Floor(rlast[1].glyphs[1].x)
                  < renderer.font.lsb[output[2].glyph_id]
           /\ F32Floor(rlast[1].glyphs[1].x)
                  >= renderer.font.lsb[output[2].glyph_id]
                     + output[1].x_offset

\* a position within 2^24 pixels of the origin
Near(x) == x.k = "fin" /\ BitLen(x.m) + x.e <= 24
\* the pixel a sample of a glyph lies on; one farther than 2^24 pixels
\* from the origin is on no canvas, and written <<-1, -1>>
TruePixel(i, s) ==
    IF Near(rlast[1].glyphs[i].x) /\ Near(rlast[1].glyphs[i].y)
    THEN <<s[1] + F32Floor(rlast[1].glyphs[i].x) + OutlineOf(i).minx,
           s[2] + F32Floor(rlast[1].glyphs[i].y) + OutlineOf(i).miny>>
    ELSE <<0 - 1, 0 - 1>>

\* C17: the canvas is as wide as the right edge of the last glyph's bounds
\* and 1.2 times the point size high; every sample that lies on a pixel of
\* the canvas is drawn on that pixel, and every sample that lies outside
\* the canvas is dropped.
C17_ClippedToCanvas ==
    Rendered =>
        LET last_glyph == rlast[1].glyphs[Len(rlast[1].glyphs)]
            right == F32Add(last_glyph.x,
                            F32Mul(F32FromInt(renderer.font.adv[last_glyph.id]),
                                   renderer.factor))
        IN  /\ LastImage.width = U32Value(AsU32(right))
            /\ renderer.scale = F32FromInt(FontSize)
            /\ LastImage.height = (FontSize * 12) \div 10
            /\ DOMAIN LastImage.px
                   = (0..(LastImage.width - 1)) \X (0..(LastImage.height - 1))
            /\ \A p \in DOMAIN LastImage.px :
                  LastImage.px[p]
                      = Min255(255 * Cardinality(
                            {gs \in UNION {{<<i, s>> : s \in Samples(OutlineOf(i))} :
                                              i \in Outlined} :
                                /\ TruePixel(gs[1], gs[2]) = p
                                /\ Coverage(OutlineOf(gs[1]), gs[2]) > 5}))

(***************************************************************************)
(* Claims about the location of a DFont (Spec)                             *)
(***************************************************************************)
\* the strings among LocValues that write a number
FloatLiterals ==
    {<<"4", ".", "5">>, <<"4", ".">>, <<".", "5">>, <<"-", "4">>,
     <<"+", "4">>, <<"1", "e", "3">>, <<"5", "E", "-", "1">>,
     <<"i", "n", "f">>, <<"-", "I", "n", "f", "i", "n", "i", "t", "y">>,
     <<"N", "a", "N">>}

\* a component of a location string is well formed when it has an '=' and
\* a number between its first '=' and the next
WellFormedComponent(component) ==
    /\ \E i \in 1..Len(component) : component[i] = "="
    /\ LET first == CHOOSE i \in 1..Len(component) :
                        /\ component[i] = "="
                        /\ \A j \in 1..(i - 1) : component[j] # "="
           rest == SubSeq(component, first + 1, Len(component))
           stop == {i \in 1..Len(rest) : rest[i] = "="}
           value == IF stop = {} THEN rest
                    ELSE SubSeq(rest, 1,
                                (CHOOSE i \in stop : \A j \in stop : i <= j) - 1)
       IN  \/ value # <<>> /\ \A i \in 1..Len(value) : value[i] \in Digits
           \/ value \in FloatLiterals
WellFormedLocation(variations) ==
    \A i \in 1..Len(Split(variations, ",")) :
        WellFormedComponent(Split(variations, ",")[i])

\* what a set_location call may do to a font
LocationFrame(before, after, result, variations) ==
    /\ result.ok <=> WellFormedLocation(variations)
    /\ after.backing = before.backing
    /\ after.codepoints = before.codepoints
    /\ IF result.ok
       THEN /\ Len(after.location) = Len(Split(variations, ","))
            /\ Len(after.normalized_location) = Len(before.backing.axes)
       ELSE /\ after.location = before.location
            /\ after.normalized_location = before.normalized_location

\* what a set_instance call may do to a font
InstanceFrame(before, after, instance) ==
    /\ after.backing = before.backing
    /\ after.codepoints = before.codepoints
    /\ IF LacksInstance(before, instance)
       THEN /\ after.location = before.location
            /\ after.normalized_location = before.normalized_location
       ELSE /\ Len(after.location) = Len(before.backing.axes)
            /\ Len(after.normalized_location) = Len(before.backing.axes)

\* C18: a set_location call that returns Err (a component without '=' or
\* without a float literal after it) and a set_instance call that returns Err (no
\* instance of that name) leave the font's location and normalized_location
\* as they were; a call that returns Ok sets both.
C18_FailedLocationKeepsFont ==
    [][(pc = "config" /\ pc' # "config") =>
          /\ IsSome(cli.location) =>
                /\ LocationFrame(font_a, font_a', hack'[1], cli.location[1])
                /\ LocationFrame(font_b, font_b', hack'[2], cli.location[1])
          /\ (~IsSome(cli.location) /\ IsSome(cli.instance)) =>
                /\ InstanceFrame(font_a, font_a', cli.instance[1])
                /\ IF LacksInstance(font_a, cli.instance[1])
                   THEN font_b' = font_b
                   ELSE InstanceFrame(font_b, font_b', cli.instance[1])]_vars

\* set_location has failed, on the second component of the string, for a
\* font with a variation axis, and the font is as DFont::new left it
C18_Witness ==
    /\ hack # <<>>
    /\ ~hack[1].ok
    /\ Len(Split(cli.location[1], ",")) >= 2
    /\ WellFormedComponent(Split(cli.location[1], ",")[1])
    /\ font_a.backing.axes # <<>>
    /\ font_a = NewDFont(font_a.backing)

(***************************************************************************)
(* Claims about the result and the output of a run (Spec)                  *)
(***************************************************************************)
Assembled == pc \in {"output", "exited", "returned"}
CategoryEmpty(category) ==
    MapIndex(MapIndex(diffmap, "glyphs"), category) = Arr(<<>>)

\* C14: when both binaries are the same and tables, glyphs and words are
\* all enabled, the assembled diff map has no "tables", no glyph in any of
\* missing, new and modified, and no script in "words".
C14_SameFontsEmptyResult ==
    (/\ Assembled
     /\ font_a.backing = font_b.backing
     /\ cli.tables /\ cli.glyphs /\ cli.words) =>
        /\ ~ContainsKey(diffmap, "tables")
        /\ ContainsKey(diffmap, "glyphs") =>
              \A category \in Categories : CategoryEmpty(category)
        /\ ContainsKey(diffmap, "words") => MapIndex(diffmap, "words") = Obj(<<>>)

\* a finished run on one binary given twice, with two tables and a name
\* table, a table that does not decode, two codepoints, one of them without
\* a glyph
C14_Witness ==
    /\ pc = "returned"
    /\ font_a.backing = font_b.backing
    /\ cli.tables /\ cli.glyphs /\ cli.words
    /\ called = <<"table_diff", "test_font_glyphs", "test_font_words">>
    /\ Len(font_a.backing.dir) = 2
    /\ \E tag \in DirTags(font_a.backing) : FailsToDecode(font_a.backing, tag)
    /\ font_a.backing.names.ok
    /\ font_a.codepoints = Cps
    /\ \E cp \in Cps : font_a.backing.gid[cp] = 0
    /\ \E cp \in Cps : IsSome(RenderOf(font_a, cp))

\* the calls the flags enable, in main's order
ExpectedCalls ==
    (IF cli.tables THEN <<"table_diff">> ELSE <<>>)
    \o (IF cli.glyphs THEN <<"test_font_glyphs">> ELSE <<>>)
    \o (IF cli.words THEN <<"test_font_words">> ELSE <<>>)
ReportKinds ==
    {"error", "pair", "fields", "indent", "table", "lhs_only", "rhs_only",
     "had", "unexpected", "heading", "glyph", "script", "word"}

\* C19: whenever anything has been printed or written, the diff map is
\* fully assembled (the enabled ones of tables, glyphs and words, in that
\* order), and the output is of one format: with --html the page alone,
\* else with --json the JSON alone, else the text report alone.
C19_OneReportFormat ==
    (stdout # <<>> \/ IsSome(html_file) \/ pc \in {"exited", "returned"}) =>
        /\ called = ExpectedCalls
        /\ ContainsKey(diffmap, "tables") => cli.tables
        /\ ContainsKey(diffmap, "glyphs") => cli.glyphs
        /\ ContainsKey(diffmap, "words") <=> cli.words
        /\ IF cli.html
           THEN /\ html_file = Some(diffmap)
                /\ pc = "exited"
                /\ \A i \in 1..Len(stdout) :
                      stdout[i].kind \notin ReportKinds \cup {"json"}
           ELSE IF cli.json
           THEN /\ html_file = None
                /\ pc = "exited"
                /\ stdout = <<[kind |-> "json", value |-> diffmap]>>
           ELSE /\ html_file = None
                /\ pc = "returned"
                /\ stdout = TextReport(diffmap, cli.succinct).lines
                /\ \A i \in 1..Len(stdout) : stdout[i].kind \in ReportKinds

\* a run with --html and --json that wrote the page, and a diff map with
\* tables, glyphs and words
C19_Witness ==
    /\ pc = "exited"
    /\ cli.html /\ cli.json
    /\ IsSome(html_file)
    /\ called = <<"table_diff", "test_font_glyphs", "test_font_words">>
    /\ ContainsKey(diffmap, "tables")
    /\ ContainsKey(diffmap, "glyphs")
    /\ ContainsKey(diffmap, "words")

(***************************************************************************)
(* Claims about the script tables (SpecScripts)                            *)
(***************************************************************************)
\* the scripts among those with a word list that Unicode writes from right
\* to left
RightToLeftScripts ==
    {"Adlam", "Arabic", "Avestan", "Hebrew", "Syriac", "Thanaa"}

\* C15: a script name with a word list has a shaping tag, and its
\* direction is the direction of the script.
C15_WordlistHasTag ==
    (spc = "done" /\ IsSome(wordlist)) =>
        /\ IsSome(script_tag)
        /\ direction = IF script_name \in RightToLeftScripts
                       THEN "RightToLeft" ELSE "LeftToRight"

====
